---- MODULE Spec2Model ----
(***************************************************************************)
(* The synchronization engine of Rustache (src/src/client.rs):             *)
(* RustyClient's CRUD operations with the offline journal, the journal     *)
(* replay (sync_journal), the delta sync (get_tasks) and the bounded       *)
(* multi-calendar refresh (get_all_tasks).                                 *)
(*                                                                         *)
(* Strings are sequences of tokens: a calendar href is <<"c1", "/">>, a    *)
(* resource href <<"c1", "/", "u1", ".ics">>, the empty string <<>>.       *)
(* An etag is a number, 0 standing for the empty string.                   *)
(***************************************************************************)
EXTENDS Integers, Sequences, FiniteSets, TLC

\* ------------------------------------------------------------- bounds
\* The server hands out the etags up to MaxEtag, each once.
MaxEtag == 2
\* At most MaxPushes actions are journaled in one behaviour.
MaxPushes == 2
\* The Local Store holds at most MaxStore tasks.
MaxStore == 1
\* The number of calendars of the fan-out specification.
NumFanCals == 5

\* ------------------------------------------------------ values, strings
Uids == {"u1", "u2"}

LOCAL_CALENDAR_HREF == <<"local://default">>

\* A remote calendar whose href ends in '/', and one whose href does not.
CalA == <<"c1", "/">>
CalB == <<"c2">>

\* str.ends_with('/')
EndsWithSlash(s) == Len(s) > 0 /\ s[Len(s)] = "/"

\* str.ends_with(".ics")
EndsWithIcs(s) == Len(s) > 0 /\ s[Len(s)] = ".ics"

\* str.contains(tok)
Contains(s, tok) == \E i \in 1..Len(s) : s[i] = tok

\* s starts with the calendar's href
InCalendar(s, cal) == Len(s) > Len(cal) /\ SubSeq(s, 1, Len(cal)) = cal

\* let filename = format!("{}.ics", task.uid); the calendar href joined with it
FullHref(cal, uid) ==
    IF EndsWithSlash(cal) THEN cal \o <<uid, ".ics">>
                          ELSE cal \o <<"/", uid, ".ics">>

\* The resources the remote can hold: the task documents of CalA.
ResHrefs == {FullHref(CalA, u) : u \in Uids}

\* TaskStatus
Statuses == {"NeedsAction", "InProcess", "Completed", "Cancelled"}

\* Option<DateTime<Utc>>: an instant in seconds.
SomeDate(t) == [some |-> TRUE, v |-> t]
NoneDate == [some |-> FALSE, v |-> 0]

\* Option<String>
SomeStr(str) == [some |-> TRUE, v |-> str]
NoneStr == [some |-> FALSE, v |-> ""]

\* A Task, as far as the engine reads it: a new task has the status
\* NeedsAction, no dates, no recurrence rule, no parent, no dependencies.
MkTask(uid, cal, href, etag) ==
    [uid |-> uid, calendar_href |-> cal, href |-> href, etag |-> etag,
     status |-> "NeedsAction", summary |-> "", description |-> "", priority |-> 0,
     dtstart |-> NoneDate, due |-> NoneDate, rrule |-> NoneStr,
     parent_uid |-> NoneStr, dependencies |-> {}, categories |-> {}]

\* Option<Task>::None
NoTask == MkTask("", <<>>, <<>>, 0)

\* Option<String> of a listed etag
SomeEtag(e) == [some |-> TRUE, v |-> e]
NoneEtag == [some |-> FALSE, v |-> 0]

\* ------------------------------------------------------------- errors
\* format!("{:?}", e) of the transport's errors, as tokens.
DebugFmt(r) ==
    CASE r = "e412" -> <<"BadStatusCode(", "412", ")">>
      [] r = "e404" -> <<"BadStatusCode(", "404", ")">>
      [] r = "ecert" -> <<"Tls(", "InvalidCertificate", ")">>
      [] OTHER -> <<"Network(", "timeout", ")">>

\* The messages of the engine's own errors.
OFFLINE == <<"Offline">>
OFFLINE_FETCH == <<"Offline", ": Cannot fetch remote calendar">>
NO_PRINCIPAL == <<"No principal">>
NO_HOME_SET == <<"No home set">>

\* e.to_string() of an error of the Local Store's file, and of the journal's.
StorageError == <<"Io(", "local.json", ")">>
JournalError == <<"Io(", "journal.json", ")">>

\* err_s.contains("412") || err_s.contains("PreconditionFailed")
Is412(err_s) == Contains(err_s, "412") \/ Contains(err_s, "PreconditionFailed")

\* err_s.contains("404")
Is404(err_s) == Contains(err_s, "404")

\* A Create that is also dropped on a not-found answer, as a Delete is.
CreateOnErrorAs(err_s) ==
    IF Is412(err_s) THEN "pop" ELSE IF Is404(err_s) THEN "pop" ELSE "block"

\* A Create that a precondition failure blocks.
CreateOnErrorBlocks(err_s) == "block"

\* What replay does with the error of a head entry's first attempt.
CreateOnError(err_s) == IF Is412(err_s) THEN "pop" ELSE "block"

\* An Update that is blocked by a not-found answer.
UpdateOnErrorAs(err_s) == IF Is412(err_s) THEN "refetch" ELSE "block"

UpdateOnError(err_s) ==
    IF Is412(err_s) THEN "refetch"
    ELSE IF Is404(err_s) THEN "pop"
    ELSE "block"

\* A Delete that is dropped on a precondition failure without a refetch.
DeleteOnErrorAs(err_s) ==
    IF Is404(err_s) THEN "pop" ELSE IF Is412(err_s) THEN "pop" ELSE "block"

DeleteOnError(err_s) ==
    IF Is404(err_s) THEN "pop"
    ELSE IF Is412(err_s) THEN "refetch"
    ELSE "block"

OnError(kind, err_s) ==
    CASE kind = "Create" -> CreateOnError(err_s)
      [] kind = "Update" -> UpdateOnError(err_s)
      [] OTHER -> DeleteOnError(err_s)

VARIABLES
    hasClient,    \* RustyClient.client is Some
    remote,       \* the server: resource href -> its etag, 0 when absent
    nextEtag,     \* the next etag the server hands out
    journalDisk,  \* the journal file: a sequence of Actions
    nextId,       \* the number of the next journaled Action (history)
    popped,       \* the numbers of the Actions replay has popped (history)
    calCache,     \* the calendar list Cache::save_calendars wrote last
    applied,      \* the numbers of the Actions the remote applied in a run that
                  \* died before it popped them (history)
    store,        \* the Local Store file: a sequence of Tasks
    op,           \* the engine operation in progress, or "idle"
    fut,          \* the get_tasks / sync_journal futures of the operation
    results,      \* get_all_tasks: final_results
    ret,          \* what the last step returned to the caller, if it returned
    last          \* the response delivered by the last step (history)

vars == <<hasClient, remote, nextEtag, journalDisk, nextId, popped, applied, calCache, store,
          op, fut, results, ret, last>>

\* ------------------------------------------------------------- server
\* What the Remote Collection answers, from the state of the server. Every call
\* may also fail in the transport (Faults).
Faults == {"enet"}

\* The request fails in the TLS handshake: the server's certificate is invalid.
TlsFaults == {"ecert"}

RemoteEtag(h) == IF h \in DOMAIN remote THEN remote[h] ELSE 0

\* The server can still hand out an etag.
CanWrite == nextEtag <= MaxEtag

\* PUT with If-None-Match: * (create_resource); Ok(None) is "ok_noetag".
CreateResponses(h) ==
    (IF RemoteEtag(h) # 0 THEN {"e412"}
     ELSE IF CanWrite /\ h \in DOMAIN remote THEN {"ok", "ok_noetag"}
     ELSE {}) \cup Faults \cup {"e404"}

\* PUT with If-Match: etag (update_resource)
UpdateResponses(h, etag) ==
    (IF RemoteEtag(h) = 0 THEN {"e404"}
     ELSE IF RemoteEtag(h) # etag THEN {"e412"}
     ELSE IF CanWrite THEN {"ok", "ok_noetag"}
     ELSE {}) \cup Faults

\* DELETE with If-Match: etag (delete)
DeleteResponses(h, etag) ==
    (IF RemoteEtag(h) = 0 THEN {"e404"}
     ELSE IF RemoteEtag(h) # etag THEN {"e412"}
     ELSE {"ok"}) \cup Faults

\* REPORT calendar-multiget of one href (get_calendar_resources): the item with
\* its content ("ok"), the item with an error as content ("item_err"), no item
\* at all ("empty"), or a failed request.
RefetchResponses(h) ==
    (IF RemoteEtag(h) # 0 THEN {"ok"} ELSE {"item_err", "empty"}) \cup Faults

IsOk(r) == r \in {"ok", "ok_noetag"}

Responses(kind, h, etag) ==
    CASE kind = "Create" -> CreateResponses(h)
      [] kind = "Update" -> UpdateResponses(h, etag)
      [] OTHER -> DeleteResponses(h, etag)

\* Replay matches Ok(_): an answer with and one without an etag are one case.
ReplayResponses(kind, h, etag) == Responses(kind, h, etag) \ {"ok_noetag"}

\* The server after it answered r to a request of this kind for h.
RemoteAfter(kind, h, r) ==
    IF ~IsOk(r) THEN remote
    ELSE IF kind = "Delete" THEN [remote EXCEPT ![h] = 0]
    ELSE [remote EXCEPT ![h] = nextEtag]

NextEtagAfter(kind, r) ==
    IF IsOk(r) /\ kind # "Delete" THEN nextEtag + 1 ELSE nextEtag

\* ------------------------------------------------------------ journal
\* Action::Create / Update / Delete (task.clone()), numbered in push order.
MkAction(kind, task, id) == [kind |-> kind, task |-> task, id |-> id]

\* Journal::push(action): appends to the journal file.
JournalPush(journal, action) == Append(journal, action)

\* journal.pop_front(): drops the head of the loaded journal; the result is
\* what the journal file holds afterwards.
JournalPopFront(queue) == Tail(queue)

\* The href replay addresses for the entry: Create builds it from the uid.
ActionHref(a) ==
    IF a.kind = "Create" THEN FullHref(a.task.calendar_href, a.task.uid)
    ELSE a.task.href

\* -------------------------------------------------------- Local Store
Range(seq) == {seq[i] : i \in 1..Len(seq)}

\* all.push(task.clone())
LocalCreate(all, task) == Append(all, task)

\* if let Some(idx) = all.iter().position(|t| t.uid == task.uid) { all[idx] = .. }
LocalPosition(all, task) ==
    IF \E i \in 1..Len(all) : all[i].uid = task.uid
    THEN CHOOSE i \in 1..Len(all) :
            /\ all[i].uid = task.uid
            /\ \A j \in 1..(i - 1) : all[j].uid # task.uid
    ELSE 0

LocalUpdate(all, task) ==
    IF LocalPosition(all, task) = 0 THEN all
    ELSE [all EXCEPT ![LocalPosition(all, task)] = task]

\* all.retain(|t| t.uid != task.uid)
LocalDelete(all, task) == SelectSeq(all, LAMBDA t : t.uid # task.uid)

\* --------------------------------------------------------------- state
Idle ==
    [name |-> "idle", task |-> NoTask, cals |-> <<>>, next |-> NoTask, pc |-> "none",
     def |-> <<>>, queue |-> <<>>, count |-> 0]

NoRet == [op |-> "none", ok |-> TRUE, err |-> <<>>, task |-> Idle.task, results |-> <<>>]

NoLast ==
    [who |-> 0, resp |-> "none", io |-> "none", listing |-> {}, cached |-> {}, arg |-> NoTask]

NoResult == [ok |-> FALSE, tasks |-> {}, err |-> <<>>]

\* A future that has not been polled yet.
NewFut(fn, cal) ==
    [fn |-> fn, pc |-> "new", cal |-> cal, queue |-> <<>>, etag |-> 0,
     cacheMap |-> {}, kept |-> {}, toFetch |-> {}, res |-> NoResult]

\* The server as an earlier session left it: empty, or holding one document
\* with the first etag.
RemoteChoices ==
    {[h \in ResHrefs |-> 0],
     [h \in ResHrefs |-> IF h = FullHref(CalA, "u1") THEN 1 ELSE 0]}

Init ==
    /\ hasClient \in BOOLEAN
    /\ remote \in RemoteChoices
    /\ nextEtag = 2
    /\ journalDisk = <<>>
    /\ nextId = 1
    /\ popped = {}
    /\ applied = {}
    /\ calCache = <<>>
    /\ store = <<>>
    /\ op = Idle
    /\ fut = <<>>
    /\ results = <<>>
    /\ ret = NoRet
    /\ last = NoLast

CrudNames == {"create_task", "update_task", "delete_task"}

KindOf(name) ==
    CASE name = "create_task" -> "Create"
      [] name = "update_task" -> "Update"
      [] OTHER -> "Delete"

\* The tasks the front ends pass to create_task, and to update_task and
\* delete_task: the etag is the one the document has on the server, or the
\* empty one (of a task that was created without an etag in the answer, and
\* as stale as any etag the front end saw earlier).
CreateInputs == {MkTask(u, c, <<>>, 0) : u \in Uids, c \in {LOCAL_CALENDAR_HREF, CalA}}

EditInputs ==
    UNION {{MkTask(u, CalA, FullHref(CalA, u), e) : e \in {0, remote[FullHref(CalA, u)]}} :
              u \in Uids}
    \cup {MkTask(u, LOCAL_CALENDAR_HREF, <<>>, 0) : u \in Uids}

\* ---------------------------------------------------------------- CRUD
\* The local branch of create_task / update_task / delete_task:
\* LocalStorage::load().unwrap_or_default(), the change, LocalStorage::save.
LocalAfter(name, all, task) ==
    CASE name = "create_task" -> LocalCreate(all, task)
      [] name = "update_task" -> LocalUpdate(all, task)
      [] OTHER -> LocalDelete(all, task)

\* update_task saves only if it found the task.
LocalSaves(name, all, task) ==
    name # "update_task" \/ LocalPosition(all, task) # 0

\* A create_task that leaves the href of the caller's task empty.
SentTaskAs(name, task) == task

\* The task as the remote branch sends it: create_task sets task.href to the
\* calendar's href joined with the file name.
SentTask(name, task) ==
    IF name = "create_task"
    THEN [task EXCEPT !.href = FullHref(task.calendar_href, task.uid)]
    ELSE task

\* The caller's task after Ok(res): if let Some(new_etag) = res { task.etag = new_etag }
TaskAfterOk(name, t, r) ==
    IF r = "ok" /\ name # "delete_task" THEN [t EXCEPT !.etag = nextEtag] ELSE t

\* The journal file after the remote call of the operation answered r: the
\* Action is pushed on Err (pushOk: Journal::push returned Ok).
JournalAfterCrud(name, t, r, pushOk) ==
    IF ~IsOk(r) /\ pushOk
    THEN JournalPush(journalDisk, MkAction(KindOf(name), t, nextId))
    ELSE journalDisk

\* An offline branch that journals the Action as a failed remote call does.
OfflineJournalAs(name, t) == JournalPush(journalDisk, MkAction(KindOf(name), t, nextId))

\* The journal file after the branch of a client without the network
\* capability: Err("Offline") and nothing else.
OfflineJournal(name, t) == journalDisk

\* A remote branch that hands the failure of the remote call to the caller.
CrudResultAs(r, pushOk) == IsOk(r)

\* What the remote branch returns: Ok on Ok, and on Err what the push returned.
CrudResult(r, pushOk) == IsOk(r) \/ pushOk

\* The remote branch of create_task / update_task / delete_task with a client:
\* the remote call answers r, and on Err the Action is pushed to the journal.
RemoteCall(name, t, r, pushOk) ==
    /\ r \in Responses(KindOf(name), t.href, t.etag) \cup TlsFaults
    /\ IF IsOk(r) THEN pushOk
       ELSE nextId <= MaxPushes /\ Len(journalDisk) < MaxPushes
    /\ remote' = RemoteAfter(KindOf(name), t.href, r)
    /\ nextEtag' = NextEtagAfter(KindOf(name), r)
    /\ journalDisk' = JournalAfterCrud(name, t, r, pushOk)
    /\ nextId' = IF ~IsOk(r) /\ pushOk THEN nextId + 1 ELSE nextId
    /\ last' = [NoLast EXCEPT
                   !.resp = r,
                   !.io = IF IsOk(r) THEN "none"
                          ELSE IF pushOk THEN "ok" ELSE "push_failed"]

\* create_task / update_task / delete_task: the local branch
\* (LocalStorage::load().unwrap_or_default(), the change, LocalStorage::save),
\* the remote branch (the remote call answers r) and Err("Offline") without a
\* client.
CrudOp(name, task, r, loadOk, saveOk, pushOk) ==
    /\ op.name = "idle"
    /\ IF task.calendar_href = LOCAL_CALENDAR_HREF
       THEN LET all == IF loadOk THEN store ELSE <<>>
                new == LocalAfter(name, all, task)
                saves == LocalSaves(name, all, task)
            IN /\ r = "none" /\ pushOk
               /\ Len(new) <= MaxStore
               /\ store' = IF saves /\ saveOk THEN new ELSE store
               /\ ret' = [op |-> name, ok |-> ~saves \/ saveOk, task |-> task,
                          err |-> IF ~saves \/ saveOk THEN <<>> ELSE StorageError,
                          results |-> <<>>]
               /\ last' = [NoLast EXCEPT
                              !.io = IF ~loadOk THEN "load_failed"
                                     ELSE IF ~saveOk THEN "save_failed" ELSE "ok"]
               /\ UNCHANGED <<remote, nextEtag, journalDisk, nextId>>
       ELSE IF hasClient
       THEN LET t == SentTask(name, task)
            IN /\ loadOk /\ saveOk
               /\ RemoteCall(name, t, r, pushOk)
               /\ ret' = [op |-> name, ok |-> CrudResult(r, pushOk), results |-> <<>>,
                          err |-> IF CrudResult(r, pushOk) THEN <<>> ELSE JournalError,
                          task |-> IF IsOk(r) THEN TaskAfterOk(name, t, r) ELSE t]
               /\ UNCHANGED store
       ELSE /\ r = "none" /\ pushOk /\ loadOk /\ saveOk
            /\ ret' = [op |-> name, ok |-> FALSE, err |-> OFFLINE, task |-> task,
                       results |-> <<>>]
            /\ last' = NoLast
            /\ journalDisk' = OfflineJournal(name, task)
            /\ UNCHANGED <<remote, nextEtag, nextId, store>>
    /\ UNCHANGED <<hasClient, popped, applied, calCache, op, fut, results>>

CreateTask(task, r, loadOk, saveOk, pushOk) ==
    CrudOp("create_task", task, r, loadOk, saveOk, pushOk)

UpdateTask(task, r, loadOk, saveOk, pushOk) ==
    CrudOp("update_task", task, r, loadOk, saveOk, pushOk)

DeleteTask(task, r, loadOk, saveOk, pushOk) ==
    CrudOp("delete_task", task, r, loadOk, saveOk, pushOk)

\* -------------------------------------------------------- sync_journal
\* The states in which a future waits for the answer to a request of replay.
ReplayPcs == {"replay", "refetch", "retry"}

\* A get_tasks that returns the error of a replay that left entries behind.
AfterSyncAs(fr) ==
    IF fr.fn = "sync_journal"
    THEN [fr EXCEPT !.pc = "done", !.res = [ok |-> TRUE, tasks |-> {}, err |-> <<>>]]
    ELSE IF fr.queue # <<>>
    THEN [fr EXCEPT !.pc = "done", !.res = [ok |-> FALSE, tasks |-> {}, err |-> JournalError]]
    ELSE [fr EXCEPT !.pc = "list"]

\* sync_journal has returned (it returns Ok(()) in every case): a direct call
\* is done, get_tasks goes on to list_resources.
AfterSync(fr) ==
    IF fr.fn = "sync_journal"
    THEN [fr EXCEPT !.pc = "done", !.res = [ok |-> TRUE, tasks |-> {}, err |-> <<>>]]
    ELSE [fr EXCEPT !.pc = "list"]

\* The first attempt for the head entry is sent: create_resource,
\* update_resource or delete.
Attempt(fr) == [fr EXCEPT !.pc = "replay"]

\* A replay that starts at the second entry of a longer journal.
SyncStartAs(fr) ==
    IF journalDisk = <<>> THEN AfterSync(fr)
    ELSE IF hasClient
    THEN Attempt([fr EXCEPT !.queue = IF Len(journalDisk) > 1 THEN Tail(journalDisk)
                                       ELSE journalDisk])
    ELSE AfterSync([fr EXCEPT !.queue = journalDisk])

\* sync_journal up to its first remote call: Journal::load(), the return on
\* an empty journal, the loop that only a client runs.
SyncStart(fr) ==
    IF journalDisk = <<>> THEN AfterSync(fr)
    ELSE IF hasClient THEN Attempt([fr EXCEPT !.queue = journalDisk])
    ELSE AfterSync([fr EXCEPT !.queue = journalDisk])

\* A pop that drops the last entry of the journal instead of its head.
PopHeadAs(fr) ==
    IF Len(fr.queue) = 1 THEN AfterSync([fr EXCEPT !.queue = <<>>])
    ELSE Attempt([fr EXCEPT !.queue = SubSeq(fr.queue, 1, Len(fr.queue) - 1)])

\* if should_pop { journal.pop_front() }, then the loop goes on with the next
\* head or ends on the empty journal.
PopHead(fr) ==
    LET q == JournalPopFront(fr.queue)
    IN IF q = <<>> THEN AfterSync([fr EXCEPT !.queue = q])
       ELSE Attempt([fr EXCEPT !.queue = q])

\* A replay that drops the entry it could not apply and goes on.
BlockHeadAs(fr) == PopHead(fr)

\* else { eprintln!("Journal Sync Paused"); break; }
BlockHead(fr) == AfterSync(fr)

\* What the head entry's first attempt leads to.
FirstDecision(kind, r) ==
    IF IsOk(r) THEN "pop" ELSE OnError(kind, DebugFmt(r))

\* The future after the decision on its head entry.
AfterDecision(fr, decision) ==
    CASE decision = "pop" -> PopHead(fr)
      [] decision = "block" -> BlockHead(fr)
      [] OTHER -> [fr EXCEPT !.pc = "refetch"]

\* A retry that sends the entry's stale etag again.
AfterRefetchAs(fr, r, fresh) ==
    IF r = "ok" THEN [fr EXCEPT !.pc = "retry", !.etag = Head(fr.queue).task.etag]
    ELSE PopHead(fr)

\* The future after the answer to the refetch of the head's etag: a retry with
\* the fresh etag if the item came with its content, else the pop.
AfterRefetch(fr, r, fresh) ==
    IF r = "ok" THEN [fr EXCEPT !.pc = "retry", !.etag = fresh]
    ELSE PopHead(fr)

\* A retry that fetches the etag again when it fails.
AfterRetryAs(fr, r) == IF IsOk(r) THEN PopHead(fr) ELSE [fr EXCEPT !.pc = "refetch"]

\* The future after the answer to the retry: should_pop = true.
AfterRetry(fr, r) == PopHead(fr)

\* A collection that also pushes the calendars whose future ended with Err.
CollectedAs(fr) ==
    IF op.name = "get_all_tasks" /\ fr.pc = "done"
    THEN Append(results, [href |-> fr.cal, tasks |-> fr.res.tasks])
    ELSE results

\* get_all_tasks pushes (href, tasks) when a future ends with Ok.
Collected(fr) ==
    IF op.name = "get_all_tasks" /\ fr.pc = "done" /\ fr.res.ok
    THEN Append(results, [href |-> fr.cal, tasks |-> fr.res.tasks])
    ELSE results

\* Future i goes on to fr.
Advance(i, fr) ==
    /\ fut' = [fut EXCEPT ![i] = fr]
    /\ results' = Collected(fr)

\* The journal file after future i went from its state to fr: pop_front wrote
\* the shortened journal.
DiskAfter(i, fr) ==
    IF Len(fr.queue) < Len(fut[i].queue) THEN fr.queue ELSE journalDisk

PoppedAfter(i, fr) ==
    IF Len(fr.queue) < Len(fut[i].queue) THEN popped \cup {Head(fut[i].queue).id}
    ELSE popped

\* The answer to the first attempt of the head entry of future i.
ReplayResp(i, r) ==
    /\ i \in DOMAIN fut
    /\ fut[i].pc = "replay"
    /\ LET a == Head(fut[i].queue)
           fr == AfterDecision(fut[i], FirstDecision(a.kind, r))
       IN /\ r \in ReplayResponses(a.kind, ActionHref(a), a.task.etag)
          /\ remote' = RemoteAfter(a.kind, ActionHref(a), r)
          /\ nextEtag' = NextEtagAfter(a.kind, r)
          /\ journalDisk' = DiskAfter(i, fr)
          /\ popped' = PoppedAfter(i, fr)
          /\ Advance(i, fr)
    /\ last' = [NoLast EXCEPT !.who = i, !.resp = r]
    /\ UNCHANGED <<hasClient, applied, calCache, nextId, store, op, ret>>

\* The answer to the refetch (get_calendar_resources of the head's href).
RefetchResp(i, r) ==
    /\ i \in DOMAIN fut
    /\ fut[i].pc = "refetch"
    /\ LET a == Head(fut[i].queue)
           fr == AfterRefetch(fut[i], r, RemoteEtag(a.task.href))
       IN /\ r \in RefetchResponses(a.task.href)
          /\ journalDisk' = DiskAfter(i, fr)
          /\ popped' = PoppedAfter(i, fr)
          /\ Advance(i, fr)
    /\ last' = [NoLast EXCEPT !.who = i, !.resp = r]
    /\ UNCHANGED <<hasClient, applied, calCache, remote, nextEtag, nextId, store, op, ret>>

\* The answer to the retry of the head's update or delete with the fresh etag.
RetryResp(i, r) ==
    /\ i \in DOMAIN fut
    /\ fut[i].pc = "retry"
    /\ LET a == Head(fut[i].queue)
           fr == AfterRetry(fut[i], r)
       IN /\ r \in ReplayResponses(a.kind, a.task.href, fut[i].etag)
          /\ remote' = RemoteAfter(a.kind, a.task.href, r)
          /\ nextEtag' = NextEtagAfter(a.kind, r)
          /\ journalDisk' = DiskAfter(i, fr)
          /\ popped' = PoppedAfter(i, fr)
          /\ Advance(i, fr)
    /\ last' = [NoLast EXCEPT !.who = i, !.resp = r]
    /\ UNCHANGED <<hasClient, applied, calCache, nextId, store, op, ret>>

\* The process dies in a run of sync_journal after the remote has applied the
\* request for the head entry (the first attempt, or the retry) and before
\* journal.pop_front(): the journal file keeps the entry.
CrashAfterSuccess(i) ==
    /\ op.name = "sync_journal"
    /\ i \in DOMAIN fut
    /\ fut[i].pc \in {"replay", "retry"}
    /\ LET a == Head(fut[i].queue)
           etag == IF fut[i].pc = "replay" THEN a.task.etag ELSE fut[i].etag
       IN /\ "ok" \in ReplayResponses(a.kind, ActionHref(a), etag)
          /\ remote' = RemoteAfter(a.kind, ActionHref(a), "ok")
          /\ nextEtag' = NextEtagAfter(a.kind, "ok")
          /\ applied' = applied \cup {a.id}
    /\ op' = Idle
    /\ fut' = <<>>
    /\ results' = <<>>
    /\ ret' = NoRet
    /\ last' = NoLast
    /\ UNCHANGED <<hasClient, journalDisk, nextId, popped, calCache, store>>

\* A direct call of sync_journal (connect_with_fallback), up to its first
\* remote call.
SyncJournalCall ==
    /\ op.name = "idle"
    /\ op' = [Idle EXCEPT !.name = "sync_journal"]
    /\ fut' = <<SyncStart(NewFut("sync_journal", <<>>))>>
    /\ results' = <<>>
    /\ last' = NoLast
    /\ ret' = NoRet
    /\ UNCHANGED <<hasClient, remote, nextEtag, journalDisk, nextId, popped, applied, calCache,
                   store>>

\* ----------------------------------------------------------- get_tasks
\* The task documents the server holds in the calendar.
CalHrefs(cal) == {h \in ResHrefs : InCalendar(h, cal)}

\* The uid in the document stored at the href.
UidAt(h) == h[Len(h) - 1]

\* What list_resources returns: the calendar's documents with their etags (as
\* the server reports them: the etag, an empty etag or none), with or without
\* the collection itself.
Listing(cal, mode, withColl) ==
    {[href |-> h,
      etag |-> CASE mode = "etag" -> SomeEtag(remote[h])
                 [] mode = "empty" -> SomeEtag(0)
                 [] OTHER -> NoneEtag] : h \in {x \in CalHrefs(cal) : remote[x] # 0}}
    \cup (IF withColl THEN {[href |-> cal, etag |-> NoneEtag]} ELSE {})

\* What Cache::load(calendar_href) can return: tasks of the calendar, one per
\* href, with an etag the server handed out or none.
CacheChoices(cal) ==
    {{MkTask(UidAt(h), cal, h, e[h]) : h \in S} :
        S \in SUBSET CalHrefs(cal), e \in [CalHrefs(cal) -> 0..(nextEtag - 1)]}

\* A match that takes an empty listed etag for the etag of a cached task that
\* has none.
EtagMatchAs(res, t) ==
    /\ res.href = t.href
    /\ res.etag.some
    /\ res.etag.v = t.etag

\* The listed resource matches the cached task: same href, an etag that is
\* Some, not empty and equal to the cached one.
EtagMatch(res, t) ==
    /\ res.href = t.href
    /\ res.etag.some
    /\ res.etag.v # 0
    /\ res.etag.v = t.etag

\* A delta that also keeps the cached tasks no listed document matches.
KeptAs(listing, cached) ==
    {t \in cached :
        \/ \E res \in listing : EndsWithIcs(res.href) /\ EtagMatch(res, t)
        \/ ~\E res \in listing : EndsWithIcs(res.href) /\ res.href = t.href}

\* final_tasks after the loop over the listing: the cached tasks kept.
Kept(listing, cached) ==
    {t \in cached : \E res \in listing : EndsWithIcs(res.href) /\ EtagMatch(res, t)}

\* A delta that downloads every listed document.
ToFetchAs(listing, cached) ==
    {res.href : res \in {x \in listing : EndsWithIcs(x.href)}}

\* to_fetch after the loop over the listing.
ToFetch(listing, cached) ==
    {res.href : res \in {x \in listing : EndsWithIcs(x.href)}}
    \ {t.href : t \in Kept(listing, cached)}

\* cache_map after the loop over the listing: the cached tasks whose href no
\* listed document has.
CacheMapLeft(listing, cached) ==
    {t \in cached : ~\E res \in listing : EndsWithIcs(res.href) /\ res.href = t.href}

\* The items of the answer to the multiget, as the listing's resources are
\* written: an item with an error, an empty content or a content that does
\* not parse (bad) has no etag, the others have the document's.
Items(hrefs, bad) ==
    {[href |-> h,
      etag |-> IF h \in bad \/ RemoteEtag(h) = 0 THEN NoneEtag ELSE SomeEtag(RemoteEtag(h))] :
        h \in hrefs}

\* A loop over the fetched items that gives up at the first item it cannot
\* parse.
ParsedAs(cal, hrefs, bad) ==
    IF bad # {} THEN {}
    ELSE {MkTask(UidAt(h), cal, h, RemoteEtag(h)) : h \in {x \in hrefs : RemoteEtag(x) # 0}}

\* The tasks parsed from the answer to the multiget: the items with a content
\* that is not empty and parses (bad: the others).
Parsed(cal, hrefs, bad) ==
    {MkTask(UidAt(h), cal, h, RemoteEtag(h)) :
        h \in {x \in hrefs \ bad : RemoteEtag(x) # 0}}

\* get_tasks returns: its locals are dropped.
Returned(fr, res) ==
    [fr EXCEPT !.pc = "done", !.res = res, !.cacheMap = {}, !.kept = {}, !.toFetch = {}]

\* get_tasks after list_resources answered with the listing: Ok(final_tasks)
\* when nothing is to fetch, else the multiget is sent.
AfterListing(fr, listing, cached) ==
    IF ToFetch(listing, cached) = {}
    THEN Returned(fr, [ok |-> TRUE, tasks |-> Kept(listing, cached), err |-> <<>>])
    ELSE [fr EXCEPT !.pc = "multiget",
                    !.cacheMap = CacheMapLeft(listing, cached),
                    !.kept = Kept(listing, cached),
                    !.toFetch = ToFetch(listing, cached)]

\* get_tasks returns Err(err_s)
Failed(fr, err_s) == Returned(fr, [NoResult EXCEPT !.err = err_s])

\* A get_tasks that replays the journal before it routes on the calendar.
GetTasksStartAs(fr, loadOk) ==
    IF hasClient THEN SyncStart(fr)
    ELSE IF fr.cal = LOCAL_CALENDAR_HREF /\ loadOk
    THEN [fr EXCEPT !.pc = "done", !.res = [ok |-> TRUE, tasks |-> Range(store), err |-> <<>>]]
    ELSE Failed(fr, OFFLINE_FETCH)

\* get_tasks up to its first remote call: the Local Store for the local
\* calendar, Err for an offline client, else the journal replay.
GetTasksStart(fr, loadOk) ==
    IF fr.cal = LOCAL_CALENDAR_HREF
    THEN IF loadOk
         THEN [fr EXCEPT !.pc = "done", !.res = [ok |-> TRUE, tasks |-> Range(store), err |-> <<>>]]
         ELSE Failed(fr, StorageError)
    ELSE IF hasClient THEN SyncStart(fr)
    ELSE Failed(fr, OFFLINE_FETCH)

\* The answer to list_resources of future i.
ListResp(i, r, mode, withColl, cached) ==
    /\ i \in DOMAIN fut
    /\ fut[i].pc = "list"
    /\ r \in {"ok"} \cup Faults
    /\ cached \in CacheChoices(fut[i].cal)
    /\ Advance(i, IF r = "ok"
                  THEN AfterListing(fut[i], Listing(fut[i].cal, mode, withColl), cached)
                  ELSE Failed(fut[i], <<"PROPFIND Error: ">> \o DebugFmt(r)))
    /\ last' = [NoLast EXCEPT
                   !.who = i, !.resp = r,
                   !.listing = IF r = "ok" THEN Listing(fut[i].cal, mode, withColl) ELSE {},
                   !.cached = IF r = "ok" THEN cached ELSE {}]
    /\ UNCHANGED <<hasClient, remote, nextEtag, journalDisk, nextId, popped, applied, calCache,
                   store, op, ret>>

\* The answer to the multiget of future i.
MultigetResp(i, r, bad) ==
    /\ i \in DOMAIN fut
    /\ fut[i].pc = "multiget"
    /\ r \in {"ok"} \cup Faults
    /\ bad \in SUBSET fut[i].toFetch
    /\ Advance(i, IF r = "ok"
                  THEN Returned(fut[i],
                                [ok |-> TRUE,
                                 tasks |-> fut[i].kept \cup
                                           Parsed(fut[i].cal, fut[i].toFetch, bad),
                                 err |-> <<>>])
                  ELSE Failed(fut[i], <<"MULTIGET Error: ">> \o DebugFmt(r)))
    /\ last' = [NoLast EXCEPT
                   !.who = i, !.resp = r,
                   !.listing = IF r = "ok" THEN Items(fut[i].toFetch, bad) ELSE {}]
    /\ UNCHANGED <<hasClient, remote, nextEtag, journalDisk, nextId, popped, applied, calCache,
                   store, op, ret>>

\* A direct call of get_tasks(calendar_href), up to its first remote call.
GetTasksCall(cal, loadOk) ==
    /\ op.name = "idle"
    /\ op' = [Idle EXCEPT !.name = "get_tasks", !.cals = <<cal>>]
    /\ fut' = <<GetTasksStart(NewFut("get_tasks", cal), loadOk)>>
    /\ results' = <<>>
    /\ last' = [NoLast EXCEPT
                   !.who = 1,
                   !.io = IF cal # LOCAL_CALENDAR_HREF THEN "none"
                          ELSE IF loadOk THEN "ok" ELSE "load_failed"]
    /\ ret' = NoRet
    /\ UNCHANGED <<hasClient, remote, nextEtag, journalDisk, nextId, popped, applied, calCache,
                   store>>

\* --------------------------------------------------------- toggle_task
\* A toggle that steps through the statuses.
ToggleStatusAs(status) ==
    CASE status = "NeedsAction" -> "InProcess"
      [] status = "InProcess" -> "Completed"
      [] OTHER -> "NeedsAction"

\* if task.status == Completed { NeedsAction } else { Completed }
ToggleStatus(status) == IF status = "Completed" THEN "NeedsAction" ELSE "Completed"

\* One day, in seconds.
Day == 86400

\* The recurrence rules of the tasks: every day, every week, a rule that
\* ends with its first occurrence, and a text that is no rule.
DAILY == "FREQ=DAILY"
WEEKLY == "FREQ=WEEKLY"
ONCE == "FREQ=DAILY;COUNT=1"
Rules == {DAILY, WEEKLY, ONCE, "every day"}

\* RRuleSet::from_str("DTSTART:<seed>\nRRULE:<rule>") and all(2).dates: the
\* first two occurrences from the seed on, <<>> where the text does not parse.
Occurrences(seed, rule_str) ==
    CASE rule_str = DAILY -> <<seed, seed + Day>>
      [] rule_str = WEEKLY -> <<seed, seed + 7 * Day>>
      [] rule_str = ONCE -> <<seed>>
      [] OTHER -> <<>>

\* A seed that prefers the due date.
SeedDateAs(task) == IF task.due.some THEN task.due ELSE task.dtstart

\* self.dtstart.or(self.due)
SeedDate(task) == IF task.dtstart.some THEN task.dtstart ELSE task.due

\* A clone that keeps the dependencies of the task.
RespawnedAs(task, uid) ==
    [task EXCEPT !.uid = uid, !.href = <<>>, !.etag = 0, !.status = "NeedsAction"]

\* task.respawn() where the recurrence has a next occurrence, before the
\* dates are set: a clone with a fresh uid, no href, no etag, the status
\* NeedsAction and no dependencies.
Respawned(task, uid) ==
    [task EXCEPT !.uid = uid, !.href = <<>>, !.etag = 0, !.status = "NeedsAction",
                 !.dependencies = {}]

\* A next due date that is the next start.
NextDueAs(task, next_start) == next_start

\* let duration = old_due - seed_date; next_task.due = Some(next_start + duration)
NextDue(task, next_start) == next_start + (task.due.v - SeedDate(task).v)

\* task.respawn() with uid the Uuid::new_v4(): None (NoTask) without a rule,
\* without a seed date, with a rule that does not parse or has no second
\* occurrence.
Respawn(task, uid) ==
    IF ~task.rrule.some \/ ~SeedDate(task).some THEN NoTask
    ELSE LET dates == Occurrences(SeedDate(task).v, task.rrule.v)
         IN IF Len(dates) > 1
            THEN [Respawned(task, uid) EXCEPT
                     !.dtstart = IF task.dtstart.some THEN SomeDate(dates[2]) ELSE @,
                     !.due = IF task.due.some THEN SomeDate(NextDue(task, dates[2])) ELSE @]
            ELSE NoTask

\* The tasks respawn() is called on: on the local calendar or synced with a
\* remote one, in any status, with and without a rule, a start, a due date
\* (before, at and after the start), dependencies and the other fields.
RespawnInputs ==
    {[MkTask(u, b.cal, b.href, b.etag) EXCEPT
         !.status = st, !.rrule = rr, !.dtstart = ds, !.due = du, !.dependencies = deps,
         !.summary = d.summary, !.description = d.description, !.priority = d.priority,
         !.parent_uid = d.parent_uid, !.categories = d.categories] :
        u \in Uids,
        b \in {[cal |-> LOCAL_CALENDAR_HREF, href |-> <<>>, etag |-> 0],
               [cal |-> CalA, href |-> FullHref(CalA, "u1"), etag |-> 1]},
        st \in Statuses,
        rr \in {NoneStr} \cup {SomeStr(r) : r \in Rules},
        ds \in {NoneDate, SomeDate(0), SomeDate(3600)},
        du \in {NoneDate, SomeDate(0), SomeDate(3600 + 2 * Day)},
        deps \in {{}, {"u2"}},
        d \in {[summary |-> "", description |-> "", priority |-> 0,
                parent_uid |-> NoneStr, categories |-> {}],
               [summary |-> "Water the plants", description |-> "balcony", priority |-> 5,
                parent_uid |-> SomeStr("u2"), categories |-> {"home"}]}}

\* task.respawn(), called on its own: the caller gets Some(next) or None.
RespawnCall(task, uid) ==
    /\ op.name = "idle"
    /\ uid \in Uids \ {task.uid}
    /\ LET next == Respawn(task, uid)
       IN ret' = [NoRet EXCEPT !.op = "respawn", !.ok = next # NoTask, !.task = task,
                               !.results = IF next # NoTask THEN <<next>> ELSE <<>>]
    /\ UNCHANGED <<hasClient, remote, nextEtag, journalDisk, nextId, popped, applied, calCache,
                   store, op, fut, results, last>>

\* The recurrences of the tasks the front ends toggle: none, a daily rule on
\* a task without dates, a daily rule on a task that starts at 0 and is due
\* two days later.
Schedules ==
    {[rrule |-> NoneStr, dtstart |-> NoneDate, due |-> NoneDate],
     [rrule |-> SomeStr(DAILY), dtstart |-> NoneDate, due |-> NoneDate],
     [rrule |-> SomeStr(DAILY), dtstart |-> SomeDate(0), due |-> SomeDate(2 * Day)]}

\* The tasks the front ends pass to toggle_task: the first task, on the local
\* calendar or on the remote one, in any status without a recurrence, open or
\* completed with one.
ToggleInputs ==
    {x \in {[t EXCEPT !.status = st, !.rrule = sch.rrule, !.dtstart = sch.dtstart,
                      !.due = sch.due] :
               t \in {y \in EditInputs : y.uid = "u1"}, st \in Statuses, sch \in Schedules} :
        x.rrule.some => x.status \in {"NeedsAction", "Completed"}}

\* A toggle that returns the task without the next occurrence.
ToggleRetAs(ok, err_s, task, next) ==
    [op |-> "toggle_task", ok |-> ok, err |-> err_s, task |-> task, results |-> <<>>]

\* What toggle_task returns: (task, next) or the error.
ToggleRet(ok, err_s, task, next) ==
    [op |-> "toggle_task", ok |-> ok, err |-> err_s, task |-> task,
     results |-> IF ok /\ next # NoTask THEN <<next>> ELSE <<>>]

\* toggle_task(task) up to its first remote call: the status flips, the next
\* occurrence is computed on the way into Completed; the local branch replaces
\* the task in the Local Store, pushes the next occurrence and saves; the
\* remote branch goes on to create_task(next) or to update_task(task), which
\* both are Err("Offline") without a client.
ToggleCall(task, uid, loadOk, saveOk) ==
    /\ op.name = "idle"
    /\ LET t == [task EXCEPT !.status = ToggleStatus(task.status)]
           next == IF t.status = "Completed" THEN Respawn(t, uid) ELSE NoTask
       IN /\ uid \in Uids \ {task.uid}
          /\ IF t.calendar_href = LOCAL_CALENDAR_HREF
             THEN LET all == IF loadOk THEN store ELSE <<>>
                      replaced == LocalUpdate(all, t)
                      new == IF next # NoTask THEN Append(replaced, next) ELSE replaced
                  IN /\ Len(all) <= MaxStore
                     /\ store' = IF saveOk THEN new ELSE store
                     /\ ret' = ToggleRet(saveOk, IF saveOk THEN <<>> ELSE StorageError,
                                         t, next)
                     /\ last' = [NoLast EXCEPT
                                    !.arg = task,
                                    !.io = IF ~loadOk THEN "load_failed"
                                           ELSE IF ~saveOk THEN "save_failed" ELSE "ok"]
                     /\ op' = op
             ELSE /\ loadOk /\ saveOk
                  /\ IF hasClient
                     THEN /\ op' = [Idle EXCEPT !.name = "toggle_task", !.task = t,
                                                !.next = next,
                                                !.pc = IF next # NoTask THEN "create"
                                                       ELSE "update"]
                          /\ ret' = NoRet
                     ELSE /\ op' = op
                          /\ ret' = ToggleRet(FALSE, OFFLINE, t, NoTask)
                  /\ last' = [NoLast EXCEPT !.arg = task]
                  /\ UNCHANGED store
    /\ UNCHANGED <<hasClient, remote, nextEtag, journalDisk, nextId, popped, applied, calCache,
                   fut, results>>

\* self.create_task(&mut next).await?: the answer to the request, the journal
\* on its failure, and the return of the error of a failed push.
ToggleCreateResp(r, pushOk) ==
    /\ op.name = "toggle_task"
    /\ op.pc = "create"
    /\ LET t == SentTask("create_task", op.next)
       IN /\ RemoteCall("create_task", t, r, pushOk)
          /\ IF CrudResult(r, pushOk)
             THEN /\ op' = [op EXCEPT !.pc = "update",
                                      !.next = IF IsOk(r) THEN TaskAfterOk("create_task", t, r)
                                               ELSE t]
                  /\ ret' = NoRet
             ELSE /\ op' = Idle
                  /\ ret' = ToggleRet(FALSE, JournalError, op.task, NoTask)
    /\ UNCHANGED <<hasClient, popped, applied, calCache, store, fut, results>>

\* self.update_task(task).await?: the answer to the request, the journal on
\* its failure, and Ok((task, created_task)).
ToggleUpdateResp(r, pushOk) ==
    /\ op.name = "toggle_task"
    /\ op.pc = "update"
    /\ RemoteCall("update_task", op.task, r, pushOk)
    /\ op' = Idle
    /\ ret' = ToggleRet(CrudResult(r, pushOk),
                        IF CrudResult(r, pushOk) THEN <<>> ELSE JournalError,
                        IF IsOk(r) THEN TaskAfterOk("update_task", op.task, r) ELSE op.task,
                        op.next)
    /\ UNCHANGED <<hasClient, popped, applied, calCache, store, fut, results>>

\* ------------------------------------------------ move_task, migrate_tasks
\* A move that keeps the href and the etag of the source.
MovedTaskAs(task, new_calendar_href) == [task EXCEPT !.calendar_href = new_calendar_href]

\* new_task: the clone with the new calendar_href and an empty href and etag.
MovedTask(task, new_calendar_href) ==
    [task EXCEPT !.calendar_href = new_calendar_href, !.href = <<>>, !.etag = 0]

\* What move_task returns: Ok(new_task), or the error of create_task.
MoveRet(ok, err_s, new_task) ==
    [op |-> "move_task", ok |-> ok, err |-> err_s,
     task |-> IF ok THEN new_task ELSE NoTask, results |-> <<>>]

\* A migration that reports the size of the batch.
MigrateRetAs(success_count, tasks) ==
    [op |-> "migrate_tasks", ok |-> TRUE, err |-> <<>>, task |-> NoTask,
     results |-> <<[count |-> Len(tasks)]>>]

\* What migrate_tasks returns: Ok(success_count).
MigrateRet(success_count, tasks) ==
    [op |-> "migrate_tasks", ok |-> TRUE, err |-> <<>>, task |-> NoTask,
     results |-> <<[count |-> success_count]>>]

\* A move that fails when the delete of the source fails.
MoveResultAs(deleted) == deleted

\* if let Err(e) = self.delete_task(task).await { eprintln!(..) }; Ok(new_task)
MoveResult(deleted) == TRUE

\* The end of a move_task: its return to the caller, or to the loop of
\* migrate_tasks, which counts it if it is Ok.
MoveDone(ok, err_s, new_task) ==
    IF op.name = "move_task"
    THEN /\ op' = Idle
         /\ ret' = MoveRet(ok, err_s, new_task)
    ELSE /\ op' = [op EXCEPT !.pc = "next", !.task = NoTask, !.next = NoTask,
                             !.count = IF ok THEN @ + 1 ELSE @]
         /\ ret' = ret

\* move_task(task, new_calendar_href) up to create_task.
MoveCall(task, new_calendar_href) ==
    /\ op.name = "idle"
    /\ op' = [Idle EXCEPT !.name = "move_task", !.task = task,
                          !.next = MovedTask(task, new_calendar_href), !.pc = "create"]
    /\ ret' = NoRet
    /\ last' = [NoLast EXCEPT !.arg = task]
    /\ UNCHANGED <<hasClient, remote, nextEtag, journalDisk, nextId, popped, applied, calCache,
                   store, fut, results>>

\* migrate_tasks(tasks, target_calendar_href) up to the loop.
MigrateCall(tasks, target) ==
    /\ op.name = "idle"
    /\ op' = [Idle EXCEPT !.name = "migrate_tasks", !.queue = tasks, !.cals = <<target>>,
                          !.def = tasks, !.pc = "next"]
    /\ ret' = NoRet
    /\ last' = NoLast
    /\ UNCHANGED <<hasClient, remote, nextEtag, journalDisk, nextId, popped, applied, calCache,
                   store, fut, results>>

\* for task in tasks: the next move_task, or Ok(success_count) at the
\* end of the batch.
MigrateNext ==
    /\ op.name = "migrate_tasks"
    /\ op.pc = "next"
    /\ IF op.queue = <<>>
       THEN /\ op' = Idle
            /\ ret' = MigrateRet(op.count, op.def)
            /\ last' = NoLast
       ELSE /\ op' = [op EXCEPT !.task = Head(op.queue),
                                !.next = MovedTask(Head(op.queue), op.cals[1]),
                                !.queue = Tail(op.queue), !.pc = "create"]
            /\ ret' = ret
            /\ last' = [NoLast EXCEPT !.arg = Head(op.queue)]
    /\ UNCHANGED <<hasClient, remote, nextEtag, journalDisk, nextId, popped, applied, calCache,
                   store, fut, results>>

\* self.create_task(&mut new_task).await?: the local branch, the remote call
\* with its journal, or Err("Offline"); an Err ends the move.
MoveCreate(r, loadOk, saveOk, pushOk) ==
    /\ op.name \in {"move_task", "migrate_tasks"}
    /\ op.pc = "create"
    /\ IF op.next.calendar_href = LOCAL_CALENDAR_HREF
       THEN LET all == IF loadOk THEN store ELSE <<>>
            IN /\ r = "none" /\ pushOk
               /\ Len(all) <= MaxStore
               /\ store' = IF saveOk THEN LocalCreate(all, op.next) ELSE store
               /\ IF saveOk
                  THEN op' = [op EXCEPT !.pc = "delete"] /\ ret' = ret
                  ELSE MoveDone(FALSE, StorageError, op.next)
               /\ last' = [NoLast EXCEPT
                              !.io = IF ~loadOk THEN "load_failed"
                                     ELSE IF ~saveOk THEN "save_failed" ELSE "ok"]
               /\ UNCHANGED <<remote, nextEtag, journalDisk, nextId>>
       ELSE /\ loadOk /\ saveOk
            /\ IF hasClient
               THEN LET t == SentTask("create_task", op.next)
                    IN /\ RemoteCall("create_task", t, r, pushOk)
                       /\ IF CrudResult(r, pushOk)
                          THEN /\ op' = [op EXCEPT
                                            !.pc = "delete",
                                            !.next = IF IsOk(r)
                                                     THEN TaskAfterOk("create_task", t, r)
                                                     ELSE t]
                               /\ ret' = ret
                          ELSE MoveDone(FALSE, JournalError, t)
               ELSE /\ r = "none" /\ pushOk
                    /\ MoveDone(FALSE, OFFLINE, op.next)
                    /\ journalDisk' = OfflineJournal("create_task", op.next)
                    /\ last' = NoLast
                    /\ UNCHANGED <<remote, nextEtag, nextId>>
            /\ UNCHANGED store
    /\ UNCHANGED <<hasClient, popped, applied, calCache, fut, results>>

\* if let Err(e) = self.delete_task(task).await { eprintln!(..) }; Ok(new_task):
\* the local branch, the remote call with its journal, or Err("Offline").
MoveDelete(r, loadOk, saveOk, pushOk) ==
    /\ op.name \in {"move_task", "migrate_tasks"}
    /\ op.pc = "delete"
    /\ IF op.task.calendar_href = LOCAL_CALENDAR_HREF
       THEN LET all == IF loadOk THEN store ELSE <<>>
            IN /\ r = "none" /\ pushOk
               /\ store' = IF saveOk THEN LocalDelete(all, op.task) ELSE store
               /\ MoveDone(MoveResult(saveOk),
                           IF MoveResult(saveOk) THEN <<>> ELSE StorageError, op.next)
               /\ last' = [NoLast EXCEPT
                              !.io = IF ~loadOk THEN "load_failed"
                                     ELSE IF ~saveOk THEN "save_failed" ELSE "ok"]
               /\ UNCHANGED <<remote, nextEtag, journalDisk, nextId>>
       ELSE /\ loadOk /\ saveOk
            /\ IF hasClient
               THEN /\ RemoteCall("delete_task", op.task, r, pushOk)
                    /\ MoveDone(MoveResult(CrudResult(r, pushOk)),
                                IF MoveResult(CrudResult(r, pushOk)) THEN <<>> ELSE JournalError,
                                op.next)
               ELSE /\ r = "none" /\ pushOk
                    /\ MoveDone(MoveResult(FALSE), IF MoveResult(FALSE) THEN <<>> ELSE OFFLINE,
                                op.next)
                    /\ journalDisk' = OfflineJournal("delete_task", op.task)
                    /\ last' = NoLast
                    /\ UNCHANGED <<remote, nextEtag, nextId>>
            /\ UNCHANGED store
    /\ UNCHANGED <<hasClient, popped, applied, calCache, fut, results>>

\* ------------------------------------------ get_calendars, discovery
\* The path of the url the client was built from.
BasePath == <<"dav", "/">>

\* A CalendarListEntry: the name is the collection's displayname, or its href
\* where the server gives none.
CalendarA == [name |-> <<"Work">>, href |-> CalA]
CalendarB == [name |-> CalB, href |-> CalB]

\* The collections find_calendars can answer with, in the server's order.
ServerCalendars == {<<>>, <<CalendarA>>, <<CalendarA, CalendarB>>, <<CalendarB, CalendarA>>}

\* The outcomes of the requests of get_calendars: the collections, no
\* principal, no home set, or an error of the transport.
CalendarAnswers == {"ok", "no_principal", "no_home", "enet", "ecert"}

\* An offline get_calendars that fails as the other operations do.
OfflineCalendarsAs == [ok |-> FALSE, err |-> OFFLINE, cals |-> <<>>]

\* get_calendars without a client: Ok(vec![]).
OfflineCalendars == [ok |-> TRUE, err |-> <<>>, cals |-> <<>>]

\* What get_calendars returns when its requests end with r and the home set
\* holds the collections cals.
GetCalendarsResult(r, cals) ==
    IF ~hasClient THEN OfflineCalendars
    ELSE CASE r = "ok" -> [ok |-> TRUE, err |-> <<>>, cals |-> cals]
           [] r = "no_principal" -> [ok |-> FALSE, err |-> NO_PRINCIPAL, cals |-> <<>>]
           [] r = "no_home" -> [ok |-> FALSE, err |-> NO_HOME_SET, cals |-> <<>>]
           [] OTHER -> [ok |-> FALSE, err |-> DebugFmt(r), cals |-> <<>>]

\* get_calendars(): read-only requests to the server, or none without a client.
GetCalendars(r, cals) ==
    /\ op.name = "idle"
    /\ IF hasClient THEN r \in CalendarAnswers ELSE r = "none"
    /\ r # "ok" => cals = <<>>
    /\ ret' = [op |-> "get_calendars",
               ok |-> GetCalendarsResult(r, cals).ok,
               err |-> GetCalendarsResult(r, cals).err,
               task |-> Idle.task,
               results |-> GetCalendarsResult(r, cals).cals]
    /\ last' = [NoLast EXCEPT !.resp = r]
    /\ UNCHANGED <<hasClient, remote, nextEtag, journalDisk, nextId, popped, applied, calCache,
                   store,
                   op, fut, results>>

\* What discover_calendar returns with a client: the base path if its listing
\* holds a task document, else the first calendar of the home set if the chain
\* of requests finds one, else the base path.
Discovered(listsIcs, first) ==
    IF listsIcs THEN BasePath
    ELSE IF first # <<>> THEN first.href
    ELSE BasePath

\* discover_calendar(): read-only requests to the server, or Err("Offline")
\* without a client.
DiscoverCalendar(listsIcs, first) ==
    /\ op.name = "idle"
    /\ ~hasClient => ~listsIcs /\ first = <<>>
    /\ ret' = IF hasClient
              THEN [op |-> "discover_calendar", ok |-> TRUE, err |-> <<>>,
                    task |-> Idle.task, results |-> <<Discovered(listsIcs, first)>>]
              ELSE [op |-> "discover_calendar", ok |-> FALSE, err |-> OFFLINE,
                    task |-> Idle.task, results |-> <<>>]
    /\ last' = [NoLast EXCEPT !.resp = IF hasClient THEN "ok" ELSE "none"]
    /\ UNCHANGED <<hasClient, remote, nextEtag, journalDisk, nextId, popped, applied, calCache,
                   store,
                   op, fut, results>>

\* ------------------------------------------------ connect_with_fallback
\* Some("Offline Mode (Network unreachable)")
OFFLINE_MODE == <<"Offline Mode (Network unreachable)">>

\* config.default_calendar: none, a name, an href, or one no calendar has.
DefaultCalendars == {<<>>, <<"Work">>, CalB, <<"Gone">>}

\* A bootstrap that treats a certificate error as any other failure.
IsFatalAs(err_s) == FALSE

\* err_str.contains("InvalidCertificate")
IsFatal(err_s) == Contains(err_s, "InvalidCertificate")

\* calendars.iter().find(|c| c.name == *def_cal || c.href == *def_cal): the
\* href of the first match, <<>> for None.
FindDefault(calendars, def_cal) ==
    IF def_cal # <<>>
       /\ \E k \in 1..Len(calendars) :
             calendars[k].name = def_cal \/ calendars[k].href = def_cal
    THEN calendars[CHOOSE k \in 1..Len(calendars) :
                      /\ calendars[k].name = def_cal \/ calendars[k].href = def_cal
                      /\ \A j \in 1..(k - 1) :
                            calendars[j].name # def_cal /\ calendars[j].href # def_cal].href
    ELSE <<>>

\* A bootstrap that fetches the tasks of the active calendar offline too.
FetchesAs(warning, active_href) == active_href # <<>>

\* if warning.is_none() { if let Some(ref h) = active_href { get_tasks(h) .. } }
Fetches(warning, active_href) == warning = <<>> /\ active_href # <<>>

\* What connect_with_fallback returns.
ConnectRet(ok, err_s, calendars, tasks, active_href, warning) ==
    [op |-> "connect_with_fallback", ok |-> ok, err |-> err_s, task |-> NoTask,
     results |-> IF ok
                 THEN <<[calendars |-> calendars, tasks |-> tasks,
                         active_href |-> active_href, warning |-> warning]>>
                 ELSE <<>>]

\* connect_with_fallback(config) up to the first remote call of its journal
\* flush: the client is built (an url that does not parse is the error), then
\* sync_journal runs.
ConnectCall(def_cal, newOk) ==
    /\ op.name = "idle"
    /\ ~hasClient => newOk
    /\ IF newOk
       THEN /\ op' = [Idle EXCEPT !.name = "connect_with_fallback", !.pc = "sync",
                                  !.def = def_cal]
            /\ fut' = <<SyncStart(NewFut("sync_journal", <<>>))>>
            /\ ret' = NoRet
       ELSE /\ op' = op
            /\ fut' = fut
            /\ ret' = ConnectRet(FALSE, <<"invalid uri character">>, <<>>, {}, <<>>, <<>>)
    /\ results' = <<>>
    /\ last' = NoLast
    /\ UNCHANGED <<hasClient, remote, nextEtag, journalDisk, nextId, popped, applied, calCache,
                   store>>

\* The rest of connect_with_fallback up to the first remote call of get_tasks:
\* get_calendars answers (r, cals); on Ok the list is saved to the cache; on
\* Err a certificate error is returned, any other error loads the cached list
\* and sets the warning; the active calendar is the configured one or, online
\* only, the discovered one; get_tasks runs only online with an active
\* calendar.
ConnectCalendars(r, cals, saveOk, loadOk, listsIcs, first) ==
    /\ op.name = "connect_with_fallback"
    /\ op.pc = "sync"
    /\ fut[1].pc = "done"
    /\ IF hasClient THEN r \in CalendarAnswers ELSE r = "none"
    /\ r # "ok" => cals = <<>>
    /\ LET res == GetCalendarsResult(r, cals)
           fatal == ~res.ok /\ IsFatal(res.err)
           calendars == IF res.ok THEN res.cals
                        ELSE IF loadOk THEN calCache ELSE <<>>
           warning == IF res.ok THEN <<>> ELSE OFFLINE_MODE
           configured == FindDefault(calendars, op.def)
           discovers == configured = <<>> /\ warning = <<>>
           active_href == IF discovers /\ hasClient THEN Discovered(listsIcs, first)
                          ELSE configured
           fetches == Fetches(warning, active_href)
       IN /\ res.ok => loadOk
          /\ ~res.ok => saveOk
          /\ ~(discovers /\ hasClient /\ ~fatal) => ~listsIcs /\ first = <<>>
          /\ calCache' = IF res.ok /\ saveOk THEN res.cals ELSE calCache
          /\ last' = [NoLast EXCEPT
                         !.resp = r,
                         !.io = IF res.ok THEN (IF saveOk THEN "ok" ELSE "save_failed")
                                ELSE IF fatal THEN "none"
                                ELSE IF loadOk THEN "ok" ELSE "load_failed"]
          /\ IF fatal
             THEN /\ ret' = ConnectRet(FALSE, <<"Connection failed: ">> \o res.err,
                                       <<>>, {}, <<>>, <<>>)
                  /\ op' = Idle
                  /\ fut' = <<>>
             ELSE IF fetches
             THEN /\ ret' = NoRet
                  /\ op' = [op EXCEPT !.pc = "tasks", !.cals = calendars]
                  /\ fut' = <<GetTasksStart(NewFut("get_tasks", active_href), TRUE)>>
             ELSE /\ ret' = ConnectRet(TRUE, <<>>, calendars, {}, active_href, warning)
                  /\ op' = Idle
                  /\ fut' = <<>>
    /\ results' = <<>>
    /\ UNCHANGED <<hasClient, remote, nextEtag, journalDisk, nextId, popped, applied, store>>

\* client.get_tasks(h).await.unwrap_or_default() has ended:
\* Ok((client, calendars, tasks, active_href, warning)).
ConnectReturn ==
    /\ op.name = "connect_with_fallback"
    /\ op.pc = "tasks"
    /\ fut[1].pc = "done"
    /\ ret' = ConnectRet(TRUE, <<>>, op.cals,
                         IF fut[1].res.ok THEN fut[1].res.tasks ELSE {},
                         fut[1].cal, <<>>)
    /\ op' = Idle
    /\ fut' = <<>>
    /\ results' = <<>>
    /\ last' = NoLast
    /\ UNCHANGED <<hasClient, remote, nextEtag, journalDisk, nextId, popped, applied, calCache,
                   store>>

\* ------------------------------------------------------- get_all_tasks
\* buffer_unordered(4)
BufferCap == 4

\* The futures that were polled and have not ended.
InFlight == {i \in DOMAIN fut : fut[i].pc \notin {"new", "done"}}

\* A stream that takes one future more than the buffer holds.
HasRoomAs == Cardinality(InFlight) <= BufferCap

\* The stream has room for the next future.
HasRoom == Cardinality(InFlight) < BufferCap

\* get_all_tasks(calendars): one future per calendar, none polled yet.
GetAllTasksCall(cals) ==
    /\ op.name = "idle"
    /\ op' = [Idle EXCEPT !.name = "get_all_tasks", !.cals = cals]
    /\ fut' = [i \in 1..Len(cals) |-> NewFut("get_tasks", cals[i])]
    /\ results' = <<>>
    /\ last' = NoLast
    /\ ret' = NoRet
    /\ UNCHANGED <<hasClient, remote, nextEtag, journalDisk, nextId, popped, applied, calCache,
                   store>>

\* The stream takes the next calendar's future and polls it for the first time.
Spawn(i, loadOk) ==
    /\ op.name = "get_all_tasks"
    /\ i \in DOMAIN fut
    /\ fut[i].pc = "new"
    /\ \A j \in 1..(i - 1) : fut[j].pc # "new"
    /\ HasRoom
    /\ Advance(i, GetTasksStart(fut[i], loadOk))
    /\ last' = [NoLast EXCEPT
                   !.who = i,
                   !.io = IF fut[i].cal # LOCAL_CALENDAR_HREF THEN "none"
                          ELSE IF loadOk THEN "ok" ELSE "load_failed"]
    /\ UNCHANGED <<hasClient, remote, nextEtag, journalDisk, nextId, popped, applied, calCache,
                   store, op, ret>>

\* The operation returns once its futures have ended: sync_journal Ok(()),
\* get_all_tasks Ok(final_results), get_tasks what its future ended with.
Return ==
    /\ op.name \in {"sync_journal", "get_all_tasks", "get_tasks"}
    /\ \A i \in DOMAIN fut : fut[i].pc = "done"
    /\ ret' = IF op.name = "get_tasks"
              THEN [op |-> op.name, ok |-> fut[1].res.ok, err |-> fut[1].res.err,
                    task |-> Idle.task,
                    results |-> <<[href |-> fut[1].cal, tasks |-> fut[1].res.tasks]>>]
              ELSE [op |-> op.name, ok |-> TRUE, err |-> <<>>, task |-> Idle.task,
                    results |-> results]
    /\ op' = Idle
    /\ fut' = <<>>
    /\ results' = <<>>
    /\ last' = NoLast
    /\ UNCHANGED <<hasClient, remote, nextEtag, journalDisk, nextId, popped, applied, calCache,
                   store>>

\* -------------------------------------------------------- environment
\* Another client of the server writes or deletes a document.
ExternalWrite(h) ==
    /\ CanWrite
    /\ remote' = [remote EXCEPT ![h] = nextEtag]
    /\ nextEtag' = nextEtag + 1
    /\ ret' = NoRet
    /\ last' = NoLast
    /\ UNCHANGED <<hasClient, journalDisk, nextId, popped, applied, calCache,
                   store, op, fut, results>>

ExternalDelete(h) ==
    /\ remote[h] # 0
    /\ remote' = [remote EXCEPT ![h] = 0]
    /\ ret' = NoRet
    /\ last' = NoLast
    /\ UNCHANGED <<hasClient, nextEtag, journalDisk, nextId, popped, applied, calCache,
                   store, op, fut, results>>

\* ------------------------------------------------------ specifications
ListModes == {"etag", "empty", "none"}

WriteAnswers == {"ok", "ok_noetag", "e412", "e404"} \cup Faults

\* The tasks of the remote calendar among the front ends' inputs.
IsRemoteTask(task) == task.calendar_href # LOCAL_CALENDAR_HREF

CrudAnswers == WriteAnswers \cup {"none"}

NextCrud ==
    \/ \E task \in {t \in CreateInputs : IsRemoteTask(t)}, r \in CrudAnswers :
          \E pushOk \in BOOLEAN : CreateTask(task, r, TRUE, TRUE, pushOk)
    \/ \E task \in {t \in EditInputs : IsRemoteTask(t)}, r \in CrudAnswers :
          \E pushOk \in BOOLEAN : UpdateTask(task, r, TRUE, TRUE, pushOk)
    \/ \E task \in {t \in EditInputs : IsRemoteTask(t)}, r \in CrudAnswers :
          \E pushOk \in BOOLEAN : DeleteTask(task, r, TRUE, TRUE, pushOk)

NextReplay ==
    \/ \E i \in DOMAIN fut, r \in WriteAnswers : ReplayResp(i, r)
    \/ \E i \in DOMAIN fut, r \in {"ok", "item_err", "empty"} \cup Faults : RefetchResp(i, r)
    \/ \E i \in DOMAIN fut, r \in WriteAnswers : RetryResp(i, r)

NextDelta ==
    \/ \E i \in DOMAIN fut, loadOk \in BOOLEAN : Spawn(i, loadOk)
    \/ \E i \in DOMAIN fut, r \in {"ok"} \cup Faults, mode \in ListModes, withColl \in BOOLEAN :
          \E cached \in CacheChoices(fut[i].cal) : ListResp(i, r, mode, withColl, cached)
    \/ \E i \in DOMAIN fut, r \in {"ok"} \cup Faults :
          \E bad \in SUBSET fut[i].toFetch : MultigetResp(i, r, bad)

NextEnv ==
    \/ \E h \in ResHrefs : ExternalWrite(h)
    \/ \E h \in ResHrefs : ExternalDelete(h)

\* The journal: the CRUD operations that fill it and the replay that drains it.
Next == NextCrud \/ SyncJournalCall \/ NextReplay \/ Return \/ NextEnv

Spec == Init /\ [][Next]_vars

\* The tasks of the Local Store among the front ends' inputs.
NextLocal ==
    \/ \E task \in {t \in CreateInputs : ~IsRemoteTask(t)} :
          \E loadOk \in BOOLEAN, saveOk \in BOOLEAN :
             CreateTask(task, "none", loadOk, saveOk, TRUE)
    \/ \E task \in {t \in EditInputs : ~IsRemoteTask(t)} :
          \E loadOk \in BOOLEAN, saveOk \in BOOLEAN :
             UpdateTask(task, "none", loadOk, saveOk, TRUE)
    \/ \E task \in {t \in EditInputs : ~IsRemoteTask(t)} :
          \E loadOk \in BOOLEAN, saveOk \in BOOLEAN :
             DeleteTask(task, "none", loadOk, saveOk, TRUE)

\* The refresh of one or two calendars with a journal left by an earlier
\* session: get_all_tasks over the calendars, each get_tasks with its replay and
\* its delta.
Cals == {CalA, CalB, LOCAL_CALENDAR_HREF}

CalLists ==
    {<<c>> : c \in Cals} \cup {<<p[1], p[2]>> : p \in {q \in Cals \X Cals : q[1] # q[2]}}

\* The journals the earlier session can have left: empty, or one Action of a
\* task of the remote calendar.
JournalChoices ==
    {<<>>}
    \cup {<<MkAction("Create", MkTask(u, CalA, FullHref(CalA, u), 0), 1)>> : u \in Uids}
    \cup {<<MkAction(k, MkTask("u1", CalA, FullHref(CalA, "u1"), e), 1)>> :
             k \in {"Update", "Delete"}, e \in 0..1}

InitSync ==
    /\ hasClient = TRUE
    /\ remote \in RemoteChoices
    /\ nextEtag = 2
    /\ journalDisk \in JournalChoices
    /\ nextId = Len(journalDisk) + 1
    /\ popped = {}
    /\ applied = {}
    /\ calCache = <<>>
    /\ store = <<>>
    /\ op = Idle
    /\ fut = <<>>
    /\ results = <<>>
    /\ ret = NoRet
    /\ last = NoLast

NextSync ==
    \/ \E cals \in CalLists : GetAllTasksCall(cals)
    \/ NextDelta
    \/ NextReplay
    \/ Return

SpecSync == InitSync /\ [][NextSync]_vars

\* get_tasks of a remote calendar, called by a front end, with a journal left
\* by an earlier session: its replay, its listing and its multiget.
NextFetch ==
    \/ \E cal \in {CalA, CalB} : GetTasksCall(cal, TRUE)
    \/ NextReplay
    \/ \E i \in DOMAIN fut, r \in {"ok"} \cup Faults, mode \in ListModes, withColl \in BOOLEAN :
          \E cached \in CacheChoices(fut[i].cal) : ListResp(i, r, mode, withColl, cached)
    \/ \E i \in DOMAIN fut, r \in {"ok"} \cup Faults :
          \E bad \in SUBSET fut[i].toFetch : MultigetResp(i, r, bad)
    \/ Return

SpecFetch == InitSync /\ [][NextFetch]_vars

\* The refresh of up to NumFanCals remote calendars, the journal being empty.
FanCal(i) ==
    CASE i = 1 -> CalA
      [] i = 2 -> CalB
      [] OTHER -> <<"c", ToString(i), "/">>

FanLists == {[i \in 1..n |-> FanCal(i)] : n \in 0..NumFanCals}

InitFan ==
    /\ hasClient \in BOOLEAN
    /\ remote = [h \in ResHrefs |-> IF h = FullHref(CalA, "u1") THEN 1 ELSE 0]
    /\ nextEtag = 2
    /\ journalDisk = <<>>
    /\ nextId = 1
    /\ popped = {}
    /\ applied = {}
    /\ calCache = <<>>
    /\ store = <<>>
    /\ op = Idle
    /\ fut = <<>>
    /\ results = <<>>
    /\ ret = NoRet
    /\ last = NoLast

NextFan ==
    \/ \E cals \in FanLists : GetAllTasksCall(cals)
    \/ NextDelta
    \/ Return

SpecFan == InitFan /\ [][NextFan]_vars

\* The replay of a journal an earlier session left, by runs of sync_journal
\* that may die between the remote's answer and the pop.
CrashJournals ==
    JournalChoices
    \cup {<<j[1], MkAction("Create", MkTask("u2", CalA, FullHref(CalA, "u2"), 0), 2)>> :
             j \in {q \in JournalChoices : q # <<>> /\ q[1].task.uid = "u1"}}

InitCrash ==
    /\ hasClient = TRUE
    /\ remote \in RemoteChoices
    /\ nextEtag = 2
    /\ journalDisk \in CrashJournals
    /\ nextId = Len(journalDisk) + 1
    /\ popped = {}
    /\ applied = {}
    /\ calCache = <<>>
    /\ store = <<>>
    /\ op = Idle
    /\ fut = <<>>
    /\ results = <<>>
    /\ ret = NoRet
    /\ last = NoLast

NextCrash ==
    \/ SyncJournalCall
    \/ NextReplay
    \/ Return
    \/ \E i \in DOMAIN fut : CrashAfterSuccess(i)

SpecCrash == InitCrash /\ [][NextCrash]_vars

\* The calls of the front ends to a client built from an empty url, on the
\* local calendar and on a remote one, with a journal an earlier session may
\* have left.
InitOffline ==
    /\ hasClient = FALSE
    /\ remote \in RemoteChoices
    /\ nextEtag = 2
    /\ journalDisk \in JournalChoices
    /\ nextId = Len(journalDisk) + 1
    /\ popped = {}
    /\ applied = {}
    /\ calCache = <<>>
    /\ store = <<>>
    /\ op = Idle
    /\ fut = <<>>
    /\ results = <<>>
    /\ ret = NoRet
    /\ last = NoLast

NextOffline ==
    \/ NextLocal
    \/ NextCrud
    \/ SyncJournalCall
    \/ \E cal \in Cals, loadOk \in BOOLEAN : GetTasksCall(cal, loadOk)
    \/ \E r \in CalendarAnswers \cup {"none"}, cals \in ServerCalendars : GetCalendars(r, cals)
    \/ \E listsIcs \in BOOLEAN, first \in {<<>>, CalendarA, CalendarB} :
          DiscoverCalendar(listsIcs, first)
    \/ Return

SpecOffline == InitOffline /\ [][NextOffline]_vars

\* The calls of the front ends on the local calendar, next to creations on a
\* remote calendar that fill the journal.
InitLocal ==
    /\ hasClient = TRUE
    /\ remote \in RemoteChoices
    /\ nextEtag = 2
    /\ journalDisk = <<>>
    /\ nextId = 1
    /\ popped = {}
    /\ applied = {}
    /\ calCache = <<>>
    /\ store = <<>>
    /\ op = Idle
    /\ fut = <<>>
    /\ results = <<>>
    /\ ret = NoRet
    /\ last = NoLast

NextToggle ==
    \/ \E task \in {t \in ToggleInputs : ~IsRemoteTask(t)} :
          \E uid \in Uids \ {task.uid}, loadOk \in BOOLEAN, saveOk \in BOOLEAN :
             ret = NoRet /\ ToggleCall(task, uid, loadOk, saveOk)
    \/ \E task \in {t \in ToggleInputs : IsRemoteTask(t)} :
          \E uid \in Uids \ {task.uid} :
             ret = NoRet /\ ToggleCall(task, uid, TRUE, TRUE)
    \/ \E r \in {"ok"} \cup Faults, pushOk \in BOOLEAN : ToggleCreateResp(r, pushOk)
    \/ \E r \in {"ok"} \cup Faults, pushOk \in BOOLEAN : ToggleUpdateResp(r, pushOk)

NextLocalCalendar ==
    \/ NextLocal
    \/ \E task \in {t \in ToggleInputs : ~IsRemoteTask(t) /\ ~t.rrule.some} :
          \E uid \in Uids \ {task.uid}, loadOk \in BOOLEAN, saveOk \in BOOLEAN :
             ToggleCall(task, uid, loadOk, saveOk)
    \/ \E loadOk \in BOOLEAN : GetTasksCall(LOCAL_CALENDAR_HREF, loadOk)
    \/ Return
    \/ \E task \in {t \in CreateInputs : IsRemoteTask(t)}, r \in {"ok"} \cup Faults :
          CreateTask(task, r, TRUE, TRUE, TRUE)

SpecLocal == InitLocal /\ [][NextLocalCalendar]_vars

\* An etag the server handed out before the session.
OldEtag == MaxEtag + 1

\* The first toggle of a session, of the task the Local Store holds or of the
\* task a remote calendar holds (with the etag it was fetched with or without
\* one), with a client and without. The store holds up to MaxStore tasks, the
\* first of them open or completed.
InitToggle ==
    /\ hasClient \in BOOLEAN
    /\ remote = [h \in ResHrefs |-> IF h = FullHref(CalA, "u1") THEN OldEtag ELSE 0]
    /\ nextEtag = 1
    /\ journalDisk = <<>>
    /\ nextId = 1
    /\ popped = {}
    /\ applied = {}
    /\ calCache = <<>>
    /\ store \in {[i \in 1..n |-> IF i = 1
                                   THEN [MkTask("u1", LOCAL_CALENDAR_HREF, <<>>, 0)
                                            EXCEPT !.status = st]
                                   ELSE MkTask("u2", LOCAL_CALENDAR_HREF, <<>>, 0)] :
                    n \in 1..MaxStore, st \in {"NeedsAction", "Completed"}}
    /\ op = Idle
    /\ fut = <<>>
    /\ results = <<>>
    /\ ret = NoRet
    /\ last = NoLast

SpecToggle == InitToggle /\ [][NextToggle]_vars

\* The batches migrate_tasks is called with: the tasks of a calendar other
\* than the target, each once, in one order or the other.
Batches(cal) ==
    LET pool == {t \in EditInputs : t.calendar_href = cal /\ (IsRemoteTask(t) => t.etag # 0)}
    IN {<<>>} \cup {<<t>> : t \in pool}
       \cup {<<p[1], p[2]>> : p \in {q \in pool \X pool : q[1].uid # q[2].uid}}

\* The other calendar of the two a task moves between.
OtherCalendar(cal) == IF cal = LOCAL_CALENDAR_HREF THEN CalA ELSE LOCAL_CALENDAR_HREF

\* One move_task or one migrate_tasks of a session, between the local calendar
\* and the remote one.
NextMove ==
    \/ \E task \in EditInputs :
          ret = NoRet /\ MoveCall(task, OtherCalendar(task.calendar_href))
    \/ \E target \in {LOCAL_CALENDAR_HREF, CalA} : \E tasks \in Batches(OtherCalendar(target)) :
          ret = NoRet /\ MigrateCall(tasks, target)
    \/ MigrateNext
    \/ \E r \in {"ok", "none"} \cup Faults, loadOk \in BOOLEAN, saveOk \in BOOLEAN,
          pushOk \in BOOLEAN : MoveCreate(r, loadOk, saveOk, pushOk)
    \/ \E r \in {"ok", "none"} \cup Faults, loadOk \in BOOLEAN, saveOk \in BOOLEAN,
          pushOk \in BOOLEAN : MoveDelete(r, loadOk, saveOk, pushOk)

\* The session starts with a client or without, the tasks of the remote
\* calendar on the server or not, and up to MaxStore tasks in the Local Store.
InitMove ==
    /\ hasClient \in BOOLEAN
    /\ remote \in {[h \in ResHrefs |-> IF h \in hs THEN OldEtag ELSE 0] :
                    hs \in {{}, {FullHref(CalA, "u1")}, ResHrefs}}
    /\ nextEtag = 1
    /\ journalDisk = <<>>
    /\ nextId = 1
    /\ popped = {}
    /\ applied = {}
    /\ calCache = <<>>
    /\ store \in {[i \in 1..n |-> MkTask(IF i = 1 THEN "u1" ELSE "u2", LOCAL_CALENDAR_HREF,
                                         <<>>, 0)] : n \in 0..MaxStore}
    /\ op = Idle
    /\ fut = <<>>
    /\ results = <<>>
    /\ ret = NoRet
    /\ last = NoLast

SpecMove == InitMove /\ [][NextMove]_vars

\* The operations that write the Local Store, in any order and number: the
\* CRUD operations on the local calendar, toggle_task of an open recurring
\* task of the local calendar, move_task between the local calendar and the
\* remote one and migrate_tasks into the local calendar (both called while
\* the journal is empty).
NextStore ==
    \/ NextLocal
    \/ \E task \in {t \in ToggleInputs :
                         ~IsRemoteTask(t) /\ t.dtstart.some /\ t.status = "NeedsAction"} :
          \E uid \in Uids \ {task.uid}, loadOk \in BOOLEAN, saveOk \in BOOLEAN :
             ToggleCall(task, uid, loadOk, saveOk)
    \/ \E task \in EditInputs :
          journalDisk = <<>> /\ MoveCall(task, OtherCalendar(task.calendar_href))
    \/ \E tasks \in Batches(CalA) :
          journalDisk = <<>> /\ MigrateCall(tasks, LOCAL_CALENDAR_HREF)
    \/ MigrateNext
    \/ \E r \in {"ok", "none"} \cup Faults, loadOk \in BOOLEAN, saveOk \in BOOLEAN,
          pushOk \in BOOLEAN : MoveCreate(r, loadOk, saveOk, pushOk)
    \/ \E r \in {"ok", "none"} \cup Faults, loadOk \in BOOLEAN, saveOk \in BOOLEAN,
          pushOk \in BOOLEAN : MoveDelete(r, loadOk, saveOk, pushOk)

\* The session starts with a client or without, the first task of the remote
\* calendar on the server, and up to MaxStore tasks in the Local Store.
InitStore ==
    /\ hasClient \in BOOLEAN
    /\ remote = [h \in ResHrefs |-> IF h = FullHref(CalA, "u1") THEN OldEtag ELSE 0]
    /\ nextEtag = 1
    /\ journalDisk = <<>>
    /\ nextId = 1
    /\ popped = {}
    /\ applied = {}
    /\ calCache = <<>>
    /\ store \in {[i \in 1..n |-> MkTask(IF i = 1 THEN "u1" ELSE "u2", LOCAL_CALENDAR_HREF,
                                         <<>>, 0)] : n \in 0..MaxStore}
    /\ op = Idle
    /\ fut = <<>>
    /\ results = <<>>
    /\ ret = NoRet
    /\ last = NoLast

SpecStore == InitStore /\ [][NextStore]_vars

\* The moves of the first task from the remote calendar CalA, while the
\* server holds it there and the journal is empty, to the remote calendar
\* CalB, where the server may hold a document of that name already, and the
\* replays of the journal.
InitRemoteMove ==
    /\ hasClient = TRUE
    /\ remote \in {[h \in {FullHref(CalA, "u1"), FullHref(CalB, "u1")} |->
                       IF h = FullHref(CalA, "u1") \/ there THEN OldEtag ELSE 0] :
                    there \in BOOLEAN}
    /\ nextEtag = 1
    /\ journalDisk = <<>>
    /\ nextId = 1
    /\ popped = {}
    /\ applied = {}
    /\ calCache = <<>>
    /\ store = <<>>
    /\ op = Idle
    /\ fut = <<>>
    /\ results = <<>>
    /\ ret = NoRet
    /\ last = NoLast

NextRemoteMove ==
    \/ \E e \in {0, OldEtag} :
          journalDisk = <<>> /\ remote[FullHref(CalA, "u1")] # 0
          /\ MoveCall(MkTask("u1", CalA, FullHref(CalA, "u1"), e), CalB)
    \/ \E r \in {"ok", "ok_noetag", "e412"} \cup Faults, pushOk \in BOOLEAN :
          MoveCreate(r, TRUE, TRUE, pushOk)
    \/ \E r \in {"ok", "e412", "e404"} \cup Faults, pushOk \in BOOLEAN :
          MoveDelete(r, TRUE, TRUE, pushOk)
    \/ SyncJournalCall
    \/ NextReplay
    \/ Return

SpecRemoteMove == InitRemoteMove /\ [][NextRemoteMove]_vars

\* The creation of the first task on a remote calendar whose href ends in
\* '/' or on one whose href does not, the update or the deletion of the task
\* create_task handed back, and the replays of the journal.
InitQueue ==
    /\ hasClient = TRUE
    /\ remote = [h \in {FullHref(CalA, "u1"), FullHref(CalB, "u1")} |-> 0]
    /\ nextEtag = 1
    /\ journalDisk = <<>>
    /\ nextId = 1
    /\ popped = {}
    /\ applied = {}
    /\ calCache = <<>>
    /\ store = <<>>
    /\ op = Idle
    /\ fut = <<>>
    /\ results = <<>>
    /\ ret = NoRet
    /\ last = NoLast

NextQueue ==
    \/ \E cal \in {CalA, CalB}, r \in {"ok", "ok_noetag", "e412"} \cup Faults :
          \E pushOk \in BOOLEAN : CreateTask(MkTask("u1", cal, <<>>, 0), r, TRUE, TRUE, pushOk)
    \/ \E r \in {"ok", "ok_noetag", "e412", "e404"} \cup Faults, pushOk \in BOOLEAN :
          ret.op = "create_task" /\ ret.ok /\ UpdateTask(ret.task, r, TRUE, TRUE, pushOk)
    \/ \E r \in {"ok", "e412", "e404"} \cup Faults, pushOk \in BOOLEAN :
          ret.op = "create_task" /\ ret.ok /\ DeleteTask(ret.task, r, TRUE, TRUE, pushOk)
    \/ SyncJournalCall
    \/ NextReplay
    \/ Return

SpecQueue == InitQueue /\ [][NextQueue]_vars

\* The runs of sync_journal on a journal an earlier session left, every
\* request of a run being answered, with a result or with an error, and the
\* run returning once its loop has ended.
NextDrain ==
    \/ SyncJournalCall
    \/ NextReplay
    \/ Return

SpecDrain == InitCrash /\ [][NextDrain]_vars /\ WF_vars(NextReplay) /\ WF_vars(Return)

\* One respawn(), on any task of RespawnInputs.
NextRespawn ==
    \E task \in RespawnInputs : \E uid \in Uids \ {task.uid} :
       ret = NoRet /\ RespawnCall(task, uid)

SpecRespawn == InitLocal /\ [][NextRespawn]_vars

\* The bootstrap of a session, again and again, with the calendar list of an
\* earlier session in the cache and a journal it may have left.
InitBoot ==
    /\ hasClient \in BOOLEAN
    /\ remote = [h \in ResHrefs |-> IF h = FullHref(CalA, "u1") THEN 1 ELSE 0]
    /\ nextEtag = 2
    /\ journalDisk \in {<<>>,
                        <<MkAction("Update", MkTask("u1", CalA, FullHref(CalA, "u1"), 0), 1)>>}
    /\ nextId = Len(journalDisk) + 1
    /\ popped = {}
    /\ applied = {}
    /\ calCache \in {<<>>, <<CalendarB>>}
    /\ store = <<>>
    /\ op = Idle
    /\ fut = <<>>
    /\ results = <<>>
    /\ ret = NoRet
    /\ last = NoLast

NextBoot ==
    \/ \E def_cal \in DefaultCalendars, newOk \in BOOLEAN : ConnectCall(def_cal, newOk)
    \/ NextReplay
    \/ \E r \in CalendarAnswers \cup {"none"}, cals \in ServerCalendars :
          \E saveOk \in BOOLEAN, loadOk \in BOOLEAN, listsIcs \in BOOLEAN,
             first \in {<<>>, CalendarA, CalendarB} :
             ConnectCalendars(r, cals, saveOk, loadOk, listsIcs, first)
    \/ \E i \in DOMAIN fut, r \in {"ok"} \cup Faults, mode \in ListModes, withColl \in BOOLEAN :
          \E cached \in CacheChoices(fut[i].cal) : ListResp(i, r, mode, withColl, cached)
    \/ \E i \in DOMAIN fut, r \in {"ok"} \cup Faults :
          \E bad \in SUBSET fut[i].toFetch : MultigetResp(i, r, bad)
    \/ ConnectReturn

SpecBoot == InitBoot /\ [][NextBoot]_vars

\* The CRUD operations against a server whose certificate may be invalid,
\* next to the creation of tasks on the local calendar.
NextTls ==
    \/ \E task \in {t \in CreateInputs : IsRemoteTask(t)}, r \in {"ok"} \cup Faults \cup TlsFaults :
          \E pushOk \in BOOLEAN : CreateTask(task, r, TRUE, TRUE, pushOk)
    \/ \E task \in {t \in EditInputs : IsRemoteTask(t)}, r \in {"ok"} \cup Faults \cup TlsFaults :
          \E pushOk \in BOOLEAN : UpdateTask(task, r, TRUE, TRUE, pushOk)
    \/ \E task \in {t \in EditInputs : IsRemoteTask(t)}, r \in {"ok"} \cup Faults \cup TlsFaults :
          \E pushOk \in BOOLEAN : DeleteTask(task, r, TRUE, TRUE, pushOk)
    \/ \E task \in {t \in CreateInputs : ~IsRemoteTask(t)} :
          CreateTask(task, "none", TRUE, TRUE, TRUE)

SpecTls == InitLocal /\ [][NextTls]_vars

\* ------------------------------------------------- the journal's replay
\* C1: in sync_journal, when the answer to the head entry's attempt is an
\* error that is neither a precondition failure nor a not-found, the replay
\* stops at once: it pops nothing, the journal file keeps the blocked entry and
\* every later one in their order, and the run sends no further request of the
\* replay (a run that has left the replay never returns to it).
C1_BlockedHeadStopsReplay ==
    [][\A i \in DOMAIN fut :
          /\ (/\ fut[i].pc = "replay"
              /\ last'.who = i
              /\ ~IsOk(last'.resp)
              /\ ~Is412(DebugFmt(last'.resp))
              /\ ~Is404(DebugFmt(last'.resp)))
             => /\ fut'[i].pc \notin ReplayPcs
                /\ fut'[i].queue = fut[i].queue
                /\ journalDisk' = journalDisk
                /\ popped' = popped
                /\ remote' = remote
          /\ (fut[i].pc \in {"list", "multiget", "done"} /\ i \in DOMAIN fut')
             => fut'[i].pc \notin ReplayPcs]_vars

\* A replay stopped by a network error at the head of a journal of two entries.
C1_Witness ==
    \E i \in DOMAIN fut :
        /\ fut[i].pc = "done"
        /\ last.who = i
        /\ last.resp = "enet"
        /\ Len(fut[i].queue) = 2
        /\ journalDisk = fut[i].queue

\* C2: across the runs of sync_journal, the journaled actions go to the remote
\* in queue order: while a request for an entry is in flight, every entry that
\* was journaled before it has been popped; the journal file holds its entries
\* in the order they were journaled, and none that was popped.
C2_QueueOrder ==
    /\ \A i \in DOMAIN fut :
          fut[i].pc \in ReplayPcs
          => \A k \in 1..(Head(fut[i].queue).id - 1) : k \in popped
    /\ \A k \in 1..Len(journalDisk) :
          /\ journalDisk[k].id \notin popped
          /\ \A j \in 1..(k - 1) : journalDisk[j].id < journalDisk[k].id

\* The second journaled entry is being replayed after the first was popped.
C2_Witness ==
    \E i \in DOMAIN fut :
        /\ fut[i].pc \in ReplayPcs
        /\ Head(fut[i].queue).id = 2
        /\ 1 \in popped

\* The step is the return of a CRUD operation of a client with a network
\* capability, for a task of a remote calendar, whose remote call failed.
CrudFailed ==
    /\ ret'.op \in CrudNames
    /\ hasClient
    /\ IsRemoteTask(ret'.task)
    /\ last'.resp \notin {"none", "ok", "ok_noetag"}

\* The journal file gains exactly the Action of the operation's kind with the
\* task snapshot, at its tail.
CrudJournaled ==
    journalDisk' = Append(journalDisk, MkAction(KindOf(ret'.op), ret'.task, nextId))

\* C3 as stated: whenever the remote call of create_task, update_task or
\* delete_task fails, the call returns success and one matching Action is
\* appended to the journal.
C3_Original == [][CrudFailed => (ret'.ok /\ CrudJournaled)]_vars

\* C3, amended: whenever the remote call fails, the call returns success and
\* one matching Action is appended to the journal, unless the journal write
\* itself fails: then the call returns that error and the journal is unchanged.
C3_JournaledUnlessPushFails ==
    [][CrudFailed =>
          IF last'.io = "push_failed"
          THEN ~ret'.ok /\ journalDisk' = journalDisk
          ELSE ret'.ok /\ CrudJournaled]_vars

\* A failed remote call was answered with success and journaled behind an
\* earlier entry.
C3_Witness ==
    /\ ret.op \in CrudNames
    /\ ret.ok
    /\ last.resp = "enet"
    /\ last.io = "ok"
    /\ Len(journalDisk) = 2
    /\ journalDisk[2].task = ret.task
    /\ journalDisk[2].kind = KindOf(ret.op)

\* C9 as stated: after the precondition failure of an Update, the refetch is
\* followed by the retry with the refetched etag.
C9_Original ==
    [][\A i \in DOMAIN fut :
          (/\ fut[i].pc = "refetch"
           /\ last'.who = i
           /\ Head(fut[i].queue).kind = "Update")
          => /\ fut'[i].pc = "retry"
             /\ fut'[i].etag = RemoteEtag(Head(fut[i].queue).task.href)]_vars

\* C9, amended: when the head entry is an Update and the update fails with a
\* precondition failure, replay refetches the resource; if the refetch returns
\* the resource with its content, replay retries the update once with the
\* refetched etag and pops the entry whatever the retry answers; if the refetch
\* fails or returns no content, replay pops the entry without a retry.
C9_UpdateConflict ==
    [][\A i \in DOMAIN fut :
          (last'.who = i /\ fut[i].pc \in ReplayPcs /\ Head(fut[i].queue).kind = "Update")
          => LET a == Head(fut[i].queue)
                 popsIt == /\ fut'[i].queue = Tail(fut[i].queue)
                           /\ journalDisk' = Tail(fut[i].queue)
                           /\ a.id \in popped'
                           /\ fut'[i].pc # "retry"
             IN /\ (fut[i].pc = "replay" /\ Is412(DebugFmt(last'.resp)) /\ ~IsOk(last'.resp))
                   => /\ fut'[i].pc = "refetch"
                      /\ fut'[i].queue = fut[i].queue
                      /\ journalDisk' = journalDisk
                /\ fut[i].pc = "refetch"
                   => IF last'.resp = "ok"
                      THEN /\ fut'[i].pc = "retry"
                           /\ fut'[i].etag = RemoteEtag(a.task.href)
                           /\ fut'[i].queue = fut[i].queue
                           /\ journalDisk' = journalDisk
                      ELSE popsIt
                /\ fut[i].pc = "retry" => popsIt]_vars

\* The retry of an Update is in flight with the refetched etag, which is not
\* the entry's.
C9_Witness ==
    \E i \in DOMAIN fut :
        /\ fut[i].pc = "retry"
        /\ Head(fut[i].queue).kind = "Update"
        /\ fut[i].etag = RemoteEtag(Head(fut[i].queue).task.href)
        /\ fut[i].etag # Head(fut[i].queue).task.etag

\* C10: when the head entry is a Create, replay pops it if the create succeeds
\* or fails with a precondition failure; on any other failure the entry stays
\* at the head of the journal and the replay halts.
C10_CreateHead ==
    [][\A i \in DOMAIN fut :
          (fut[i].pc = "replay" /\ last'.who = i /\ Head(fut[i].queue).kind = "Create")
          => IF IsOk(last'.resp) \/ Is412(DebugFmt(last'.resp))
             THEN /\ fut'[i].queue = Tail(fut[i].queue)
                  /\ journalDisk' = Tail(fut[i].queue)
                  /\ Head(fut[i].queue).id \in popped'
             ELSE /\ fut'[i].queue = fut[i].queue
                  /\ journalDisk' = journalDisk
                  /\ popped' = popped
                  /\ fut'[i].pc \notin ReplayPcs]_vars

\* A Create was answered not-found: it is still the head of the journal and
\* the replay has ended.
C10_Witness ==
    \E i \in DOMAIN fut :
        /\ fut[i].pc = "done"
        /\ last.who = i
        /\ last.resp = "e404"
        /\ fut[i].queue # <<>>
        /\ Head(fut[i].queue).kind = "Create"
        /\ journalDisk = fut[i].queue

\* ------------------------------------------------------ the refresh
\* The futures whose journal replay waits for an answer of the remote.
Replaying == {i \in DOMAIN fut : fut[i].pc \in ReplayPcs}

\* C4: the journal replay never runs concurrently with itself: at any time at
\* most one sync_journal is in progress, the get_tasks calls that get_all_tasks
\* runs side by side included.
C4_SingleReplay == Cardinality(Replaying) <= 1

\* C5: during get_all_tasks over N calendars, never more than 4 of the
\* per-calendar get_tasks are in flight at the same time.
C5_AtMostFourInFlight == Cardinality(InFlight) <= 4

\* Four get_tasks are in flight and a fifth calendar waits for its turn.
C5_Witness ==
    /\ Cardinality(InFlight) = 4
    /\ \E i \in DOMAIN fut : fut[i].pc = "new"

CachedPairs(cached) == {<<t.href, SomeEtag(t.etag)>> : t \in cached}

ListedPairs(listing) == {<<x.href, x.etag>> : x \in listing}

\* The step delivers the listing to the get_tasks of future i.
Listed(i) == fut[i].pc = "list" /\ last'.who = i /\ last'.resp = "ok"

\* get_tasks of future i returns the cached tasks without a multiget.
FastPath(i) ==
    /\ fut'[i].pc = "done"
    /\ fut'[i].res = [ok |-> TRUE, tasks |-> last'.cached, err |-> <<>>]

\* C7 as stated: when the cached (href, etag) set equals the listing,
\* get_tasks sends no multiget and returns the cached tasks.
C7_Original ==
    [][\A i \in DOMAIN fut :
          (Listed(i) /\ CachedPairs(last'.cached) = ListedPairs(last'.listing))
          => FastPath(i)]_vars

\* C7, amended: when the cached (href, etag) set equals the listing and no
\* listed etag is empty, get_tasks sends no multiget and returns the cached
\* tasks.
C7_FastPath ==
    [][\A i \in DOMAIN fut :
          (/\ Listed(i)
           /\ CachedPairs(last'.cached) = ListedPairs(last'.listing)
           /\ \A x \in last'.listing : x.etag.v # 0)
          => FastPath(i)]_vars

\* get_tasks returned a cache that is not empty and equals the listing.
C7_Witness ==
    \E i \in DOMAIN fut :
        /\ last.who = i
        /\ last.listing # {}
        /\ CachedPairs(last.cached) = ListedPairs(last.listing)
        /\ fut[i].pc = "done"
        /\ fut[i].res = [ok |-> TRUE, tasks |-> last.cached, err |-> <<>>]

\* C8: a cached task whose href the listing does not hold is not in the result
\* of get_tasks (it is neither kept nor fetched), and get_tasks, once it has
\* the listing, sends no create, update or delete: the server and the journal
\* are as they were.
C8_DroppedNotReuploaded ==
    [][\A i \in DOMAIN fut :
          /\ Listed(i)
             => \A t \in {c \in last'.cached : \A x \in last'.listing : x.href # c.href} :
                   /\ fut'[i].pc = "multiget"
                      => /\ t \in fut'[i].cacheMap
                         /\ t.href \notin fut'[i].toFetch
                         /\ \A k \in fut'[i].kept : k.href # t.href
                   /\ \A x \in fut'[i].res.tasks : x.href # t.href
          /\ (fut[i].pc = "multiget" /\ last'.who = i)
             => \A t \in fut[i].cacheMap : \A x \in fut'[i].res.tasks : x.href # t.href
          /\ (fut[i].pc \in {"list", "multiget"} /\ last'.who = i)
             => /\ fut'[i].pc \notin ReplayPcs
                /\ remote' = remote
                /\ journalDisk' = journalDisk]_vars

\* get_tasks returned a task of the listing, and dropped a cached task that the
\* listing does not hold.
C8_Witness ==
    \E i \in DOMAIN fut :
        /\ last.who = i
        /\ last.resp = "ok"
        /\ fut[i].pc = "done"
        /\ fut[i].res.ok
        /\ fut[i].res.tasks # {}
        /\ \E t \in last.cached :
              /\ \A x \in last.listing : x.href # t.href
              /\ \A x \in fut[i].res.tasks : x.href # t.href

\* C11 as stated: after the precondition failure of a Delete, the refetch is
\* followed by the retry with the refetched etag.
C11_Original ==
    [][\A i \in DOMAIN fut :
          (/\ fut[i].pc = "refetch"
           /\ last'.who = i
           /\ Head(fut[i].queue).kind = "Delete")
          => /\ fut'[i].pc = "retry"
             /\ fut'[i].etag = RemoteEtag(Head(fut[i].queue).task.href)]_vars

\* C11, amended: when the head entry is a Delete, replay pops it on success or
\* not-found; on a precondition failure it refetches the resource and, if the
\* refetch returns the resource with its content, retries the delete once with
\* the refetched etag and pops the entry whatever the retry answers; if the
\* refetch fails or returns no content it pops the entry without a retry; on
\* any other failure the entry stays at the head and the replay halts.
C11_DeleteHead ==
    [][\A i \in DOMAIN fut :
          (last'.who = i /\ fut[i].pc \in ReplayPcs /\ Head(fut[i].queue).kind = "Delete")
          => LET a == Head(fut[i].queue)
                 err_s == DebugFmt(last'.resp)
                 stays == /\ fut'[i].queue = fut[i].queue
                          /\ journalDisk' = journalDisk
                          /\ popped' = popped
                 popsIt == /\ fut'[i].queue = Tail(fut[i].queue)
                           /\ journalDisk' = Tail(fut[i].queue)
                           /\ a.id \in popped'
                           /\ fut'[i].pc # "retry"
             IN /\ fut[i].pc = "replay"
                   => IF IsOk(last'.resp) \/ Is404(err_s) THEN popsIt
                      ELSE IF Is412(err_s) THEN stays /\ fut'[i].pc = "refetch"
                      ELSE stays /\ fut'[i].pc \notin ReplayPcs
                /\ fut[i].pc = "refetch"
                   => IF last'.resp = "ok"
                      THEN /\ stays
                           /\ fut'[i].pc = "retry"
                           /\ fut'[i].etag = RemoteEtag(a.task.href)
                      ELSE popsIt
                /\ fut[i].pc = "retry" => popsIt]_vars

\* The retry of a Delete is in flight with the refetched etag, which is not
\* the entry's.
C11_Witness ==
    \E i \in DOMAIN fut :
        /\ fut[i].pc = "retry"
        /\ Head(fut[i].queue).kind = "Delete"
        /\ fut[i].etag = RemoteEtag(Head(fut[i].queue).task.href)
        /\ fut[i].etag # Head(fut[i].queue).task.etag

\* C12: when the head entry is an Update and the update is answered not-found,
\* replay pops the entry, sends no further request for it and goes on with the
\* next entry; a failure that is neither a precondition failure nor a
\* not-found leaves the Update at the head and halts the replay.
C12_UpdateNotFound ==
    [][\A i \in DOMAIN fut :
          (/\ fut[i].pc = "replay"
           /\ last'.who = i
           /\ Head(fut[i].queue).kind = "Update"
           /\ ~IsOk(last'.resp)
           /\ ~Is412(DebugFmt(last'.resp)))
          => IF Is404(DebugFmt(last'.resp))
             THEN /\ fut'[i].queue = Tail(fut[i].queue)
                  /\ journalDisk' = Tail(fut[i].queue)
                  /\ Head(fut[i].queue).id \in popped'
                  /\ remote' = remote
                  /\ fut'[i].pc \notin {"refetch", "retry"}
                  /\ fut'[i].queue # <<>> => fut'[i].pc = "replay"
             ELSE /\ fut'[i].queue = fut[i].queue
                  /\ journalDisk' = journalDisk
                  /\ popped' = popped
                  /\ fut'[i].pc \notin ReplayPcs]_vars

\* An Update was answered not-found and popped, and the request for the next
\* entry is in flight.
C12_Witness ==
    \E i \in DOMAIN fut :
        /\ last.who = i
        /\ last.resp = "e404"
        /\ fut[i].pc = "replay"
        /\ Head(fut[i].queue).id = 2
        /\ popped = {1}
        /\ journalDisk = fut[i].queue

\* C19: entries leave the journal only from its head: no step of a run of
\* sync_journal does anything to the journal file but drop its head, so that
\* after the run the journal is a suffix of the journal the run started with;
\* the run returns with the journal file holding what the run has not popped.
C19_HeadOnly ==
    [][(op.name = "sync_journal")
       => /\ \/ journalDisk' = journalDisk
             \/ journalDisk # <<>> /\ journalDisk' = Tail(journalDisk)
          /\ \A i \in DOMAIN fut :
                (i \in DOMAIN fut' /\ fut[i].pc \in ReplayPcs)
                => /\ fut[i].queue = journalDisk
                   /\ fut'[i].queue = journalDisk']_vars

\* A run of sync_journal has popped the first of two entries and ended at the
\* second, which is what the journal file holds.
C19_Witness ==
    /\ op.name = "sync_journal"
    /\ \E i \in DOMAIN fut :
          /\ fut[i].pc = "done"
          /\ Len(journalDisk) = 1
          /\ journalDisk[1].id = 2
          /\ popped = {1}
          /\ fut[i].queue = journalDisk

\* ------------------------------------------------- the routing of calls
\* The creation of a task on the local calendar.
LocalCreated ==
    /\ ret'.op = "create_task"
    /\ ~IsRemoteTask(ret'.task)
    /\ last'.io = "ok"

\* The creation of a task on a remote calendar, by a client with or without
\* the network capability.
RemoteCreate ==
    /\ ret'.op = "create_task"
    /\ IsRemoteTask(ret'.task)

\* C14 as stated: with an offline client, create_task on the local calendar
\* appends the task to the Local Store, and a following create_task on a
\* remote calendar appends exactly one Create entry to the journal and returns
\* success.
C14_Original ==
    [][/\ (~hasClient /\ LocalCreated) => store' = Append(store, ret'.task)
       /\ (~hasClient /\ RemoteCreate /\ store # <<>>)
          => ret'.ok /\ CrudJournaled]_vars

\* C14, amended: with an offline client, create_task on the local calendar
\* appends the task to the Local Store, and a following create_task on a
\* remote calendar sends no request, appends no entry to the journal and
\* returns the error "Offline".
C14_OfflineCreate ==
    [][/\ (~hasClient /\ LocalCreated) => store' = Append(store, ret'.task)
       /\ (~hasClient /\ RemoteCreate)
          => /\ ~ret'.ok
             /\ ret'.err = OFFLINE
             /\ journalDisk' = journalDisk
             /\ last'.resp = "none"
             /\ remote' = remote]_vars

\* The offline client created a task on the local calendar and was then
\* refused the creation of a task on a remote calendar.
C14_Witness ==
    /\ ~hasClient
    /\ \E k \in 1..Len(store) : store[k].calendar_href = LOCAL_CALENDAR_HREF
    /\ ret.op = "create_task"
    /\ IsRemoteTask(ret.task)
    /\ ret.err = OFFLINE

\* A remote operation of the engine returns: get_calendars,
\* discover_calendar, get_tasks and the CRUD operations on a remote calendar,
\* sync_journal with a journal that holds entries.
RemoteOpReturns ==
    \/ ret'.op \in {"get_calendars", "discover_calendar"}
    \/ ret'.op = "get_tasks" /\ ret'.results[1].href # LOCAL_CALENDAR_HREF
    \/ ret'.op \in CrudNames /\ IsRemoteTask(ret'.task)
    \/ ret'.op = "sync_journal" /\ journalDisk # <<>>

\* No step of the engine sends a request or leaves one in flight.
NoContact ==
    /\ last'.resp = "none"
    /\ remote' = remote
    /\ \A i \in DOMAIN fut' : fut'[i].pc = "done"

\* C15 as stated: for a client built from an empty url, every remote
\* operation fails with the error "Offline" and none contacts a server.
C15_Original ==
    [][~hasClient
       => /\ NoContact
          /\ RemoteOpReturns => ~ret'.ok /\ ret'.err = OFFLINE]_vars

\* C15, amended: for a client built from an empty url, discover_calendar and
\* create_task, update_task and delete_task on a non-local calendar fail with
\* the error "Offline", get_tasks on a non-local calendar fails with
\* "Offline: Cannot fetch remote calendar", get_calendars succeeds with the
\* empty list, sync_journal with a non-empty journal succeeds and leaves the
\* journal as it is, and none of them contacts a server.
C15_OfflineClient ==
    [][~hasClient
       => /\ NoContact
          /\ journalDisk' = journalDisk
          /\ RemoteOpReturns
             => CASE ret'.op = "get_calendars" -> ret'.ok /\ ret'.results = <<>>
                  [] ret'.op = "sync_journal" -> ret'.ok
                  [] ret'.op = "get_tasks" -> ~ret'.ok /\ ret'.err = OFFLINE_FETCH
                  [] OTHER -> ~ret'.ok /\ ret'.err = OFFLINE]_vars

\* The offline client was asked to replay a journal that holds an entry and
\* returned success with the entry still there.
C15_Witness ==
    /\ ~hasClient
    /\ ret.op = "sync_journal"
    /\ ret.ok
    /\ journalDisk # <<>>

\* An operation on the local calendar acts in this step: create_task,
\* update_task, delete_task or toggle_task on a task of the local calendar, or
\* get_tasks of the local calendar (its call and its return).
LocalOpStep ==
    \/ ret'.op \in CrudNames \cup {"toggle_task"}
          /\ ret'.task.calendar_href = LOCAL_CALENDAR_HREF
    \/ op'.name = "get_tasks" /\ op'.cals = <<LOCAL_CALENDAR_HREF>>
    \/ op.name = "get_tasks" /\ op.cals = <<LOCAL_CALENDAR_HREF>>

\* C16: no operation on the local calendar reaches the remote: get_tasks,
\* create_task, update_task, delete_task and toggle_task on the local
\* calendar send no request, start no journal replay and leave the journal as
\* it is, and the journal never holds an Action of a task of the local
\* calendar.
C16_LocalStaysLocal ==
    [][/\ LocalOpStep
          => /\ last'.resp = "none"
             /\ remote' = remote
             /\ nextEtag' = nextEtag
             /\ journalDisk' = journalDisk
             /\ popped' = popped
             /\ op'.name # "toggle_task"
             /\ \A i \in DOMAIN fut' : fut'[i].pc = "done" /\ fut'[i].queue = <<>>
       /\ \A k \in 1..Len(journalDisk') :
             journalDisk'[k].task.calendar_href # LOCAL_CALENDAR_HREF]_vars

\* With an Action waiting in the journal, get_tasks of the local calendar
\* returned the Local Store's task and the Action is still waiting.
C16_Witness ==
    /\ hasClient
    /\ journalDisk # <<>>
    /\ store # <<>>
    /\ ret.op = "get_tasks"
    /\ ret.ok
    /\ ret.results = <<[href |-> LOCAL_CALENDAR_HREF, tasks |-> Range(store)]>>

\* ------------------------------------------------- what fills the journal
\* C18: an Action is appended to the journal only when a remote create, update
\* or delete attempt fails for a non-fatal reason: a remote operation that
\* succeeds, an operation on the local calendar and a failure caused by a fatal
\* certificate error append nothing.
C18_JournalOnlyOnNonFatal ==
    [][Len(journalDisk') > Len(journalDisk)
       => /\ ret'.op \in CrudNames
          /\ IsRemoteTask(ret'.task)
          /\ last'.resp # "none"
          /\ ~IsOk(last'.resp)
          /\ ~IsFatal(DebugFmt(last'.resp))]_vars

\* ---------------------------------------------------------- the bootstrap
\* connect_with_fallback gets the answer to get_calendars in this step.
CalendarsAnswered ==
    /\ op.name = "connect_with_fallback"
    /\ op.pc = "sync"
    /\ fut[1].pc = "done"
    /\ op' # op

\* C17: in connect_with_fallback, if fetching the calendar list fails with a
\* certificate-validation error, the bootstrap returns a fatal error and uses
\* no cached data; if it fails for any other reason, the bootstrap succeeds
\* with the last cached calendar list (empty if there is none) and the warning
\* that marks the session offline, with no discovery and no fetch of tasks.
C17_CertFatalElseCache ==
    [][(CalendarsAnswered /\ last'.resp \in CalendarAnswers \ {"ok"})
       => /\ op' = Idle
          /\ ret'.op = "connect_with_fallback"
          /\ calCache' = calCache
          /\ IF last'.resp = "ecert"
             THEN /\ ~ret'.ok
                  /\ Contains(ret'.err, "InvalidCertificate")
                  /\ ret'.results = <<>>
                  /\ last'.io = "none"
             ELSE /\ ret'.ok
                  /\ ret'.results[1].calendars = IF last'.io = "ok" THEN calCache ELSE <<>>
                  /\ ret'.results[1].warning = OFFLINE_MODE
                  /\ ret'.results[1].tasks = {}
                  /\ ret'.results[1].active_href
                        = FindDefault(ret'.results[1].calendars, op.def)]_vars

\* A bootstrap that could not fetch the calendar list returned, with the
\* warning, the list an earlier bootstrap of the behaviour had fetched.
C17_Witness ==
    /\ ret.op = "connect_with_fallback"
    /\ ret.ok
    /\ last.resp = "enet"
    /\ ret.results[1].warning = OFFLINE_MODE
    /\ ret.results[1].calendars = <<CalendarA, CalendarB>>
    /\ ret.results[1].active_href = CalB

\* ------------------------------------------------------------ the toggle
\* The task of the toggle that was called in this step, after the flip.
Toggled == IF op'.name = "toggle_task" THEN op'.task ELSE ret'.task

\* C20: toggle_task flips the status between Completed and NeedsAction only:
\* a Completed task becomes NeedsAction, a NeedsAction task becomes Completed,
\* InProcess and Cancelled are never the result; the status of the flip is the
\* one the Local Store, the request, the journal and the caller get.
C20_ToggleFlips ==
    [][/\ last'.arg # NoTask
          => /\ last'.arg.status = "Completed" => Toggled.status = "NeedsAction"
             /\ last'.arg.status = "NeedsAction" => Toggled.status = "Completed"
             /\ Toggled.status \in {"Completed", "NeedsAction"}
             /\ \A k \in 1..Len(store') :
                   (store'[k].uid = Toggled.uid /\ store' # store)
                   => store'[k].status = Toggled.status
       /\ (op.name = "toggle_task" /\ op.pc = "update")
          => /\ ret'.task.status = op.task.status
             /\ ret'.task.status \in {"Completed", "NeedsAction"}
             /\ journalDisk' # journalDisk
                => journalDisk'[Len(journalDisk')].task.status = op.task.status
       /\ ret'.op = "toggle_task"
          => \A k \in 1..Len(ret'.results) : ret'.results[k].status = "NeedsAction"]_vars

\* A Completed task of the Local Store was toggled and came back as
\* NeedsAction, in the store and to the caller.
C20_Witness ==
    /\ last.arg.status = "Completed"
    /\ last.arg.uid = "u1"
    /\ ret.op = "toggle_task"
    /\ ret.ok
    /\ ret.task.status = "NeedsAction"
    /\ store # <<>>
    /\ store[1] = ret.task

\* ------------------------------------------------------------ the crash
\* The answer is the server's own: not a failure of the transport, nor the
\* not-found of a Create whose calendar is gone.
ServerAnswered(kind, r) == r \notin Faults /\ ~(kind = "Create" /\ r = "e404")

\* The entries the remote applied in a run that died before the pop are at the
\* head of the journal file until a later run pops them.
Redelivered ==
    \A id \in applied \ popped : journalDisk # <<>> /\ Head(journalDisk).id = id

\* C13: if the process dies after the remote applied the head entry and before
\* the pop, the entry is still the head of the journal for the next replay; the
\* server's answer to its redelivery never blocks the queue; and when the entry
\* is popped the remote is as after one application: the document of a Create
\* or an Update is there, untouched by the redelivered Create and written
\* again only by the retry that sends the queued task of the Update, and the
\* document of a Delete is absent.
C13_CrashBeforePop ==
    [][/\ Redelivered
       /\ Redelivered'
       /\ \A i \in DOMAIN fut :
             (/\ last'.who = i
              /\ fut[i].pc \in ReplayPcs
              /\ Head(fut[i].queue).id \in applied)
             => LET a == Head(fut[i].queue)
                IN /\ (fut[i].pc = "replay" /\ ServerAnswered(a.kind, last'.resp))
                      => /\ \/ a.id \in popped'
                            \/ fut'[i].pc = "refetch"
                         /\ a.kind \in {"Create", "Delete"}
                            => a.id \in popped' /\ remote' = remote
                   /\ (a.kind = "Update" /\ remote' # remote)
                      => fut[i].pc = "retry" /\ last'.resp = "ok"
                   /\ a.id \in popped'
                      => IF a.kind = "Delete" THEN remote'[ActionHref(a)] = 0
                         ELSE remote'[ActionHref(a)] # 0]_vars

\* An entry the remote had applied before the process died was delivered again
\* and popped, and the request for the entry behind it is in flight.
C13_Witness ==
    \E i \in DOMAIN fut :
        /\ 1 \in applied
        /\ 1 \in popped
        /\ fut[i].pc = "replay"
        /\ Head(fut[i].queue).id = 2

\* ------------------------------------------------------- the recurrence
\* The toggle takes the task into Completed and respawn() has a next
\* occurrence for it.
Recurs(task) ==
    /\ task.status # "Completed"
    /\ \E u \in Uids \ {task.uid} : Respawn([task EXCEPT !.status = "Completed"], u) # NoTask

\* The journal got an Action for this uid in this step.
Journaled(uid) ==
    /\ Len(journalDisk') = Len(journalDisk) + 1
    /\ journalDisk'[Len(journalDisk')].task.uid = uid

\* C21 as stated: a toggle that took a task with a recurrence rule into
\* Completed and succeeded returns the new task next to the original.
C21_Original ==
    (ret.op = "toggle_task" /\ ret.ok /\ ret.task.rrule.some /\ ret.task.status = "Completed")
    => Len(ret.results) = 1

\* C21 (amended): when toggle_task moves a task into Completed and respawn
\* yields a next occurrence (the task has a rule that parses and has a second
\* occurrence, and a dtstart or a due), then on a remote calendar the next
\* occurrence is created (sent, or journaled) before anything of the original
\* is sent or journaled, on the local calendar both are written by one save
\* with the next occurrence appended, and a toggle that succeeds returns both;
\* otherwise (out of Completed, no rule, or no next occurrence) nothing is
\* created and the second returned value is empty.
C21_NextFirst ==
    [][/\ (last'.arg # NoTask /\ ~IsRemoteTask(last'.arg) /\ ret'.ok)
          => LET all == IF last'.io = "load_failed" THEN <<>> ELSE store
             IN /\ \A k \in 1..Len(all) :
                      store'[k] = IF all[k].uid = last'.arg.uid THEN ret'.task ELSE all[k]
                /\ IF Recurs(last'.arg)
                   THEN /\ Len(ret'.results) = 1
                        /\ ret'.results[1].uid # last'.arg.uid
                        /\ store' = Append(SubSeq(store', 1, Len(all)), ret'.results[1])
                   ELSE /\ ret'.results = <<>>
                        /\ Len(store') = Len(all)
       /\ (last'.arg # NoTask /\ IsRemoteTask(last'.arg) /\ hasClient)
          => /\ op'.name = "toggle_task"
             /\ op'.pc = IF Recurs(last'.arg) THEN "create" ELSE "update"
             /\ Recurs(last'.arg) <=> op'.next # NoTask
             /\ UNCHANGED <<remote, journalDisk>>
       /\ (op.name = "toggle_task" /\ op.pc = "create")
          => /\ remote'[op.task.href] = remote[op.task.href]
             /\ ~Journaled(op.task.uid)
             /\ op'.name = "toggle_task"
                => /\ op'.pc = "update"
                   /\ op'.task = op.task
                   /\ op'.next.uid = op.next.uid
                   /\ \/ remote'[op'.next.href] # remote[op'.next.href]
                      \/ Journaled(op.next.uid)
             /\ op'.name # "toggle_task" => ~ret'.ok /\ ret'.results = <<>>
       /\ (op.name = "toggle_task" /\ op.pc = "update")
          => /\ ret'.op = "toggle_task"
             /\ ret'.ok => /\ ret'.task.uid = op.task.uid
                           /\ ret'.results = IF op.next # NoTask THEN <<op.next>> ELSE <<>>
             /\ \A h \in ResHrefs : h # op.task.href => remote'[h] = remote[h]
             /\ Len(journalDisk') > Len(journalDisk) => Journaled(op.task.uid)]_vars

\* A daily task of a remote calendar that starts at 0 was completed: its next
\* occurrence got its etag from the server before the original got its own,
\* and both came back.
C21_Witness ==
    /\ ret.op = "toggle_task"
    /\ ret.ok
    /\ IsRemoteTask(ret.task)
    /\ ret.task.status = "Completed"
    /\ ret.task.rrule.some
    /\ Len(ret.results) = 1
    /\ ret.results[1].dtstart = SomeDate(Day)
    /\ ret.results[1].etag # 0
    /\ ret.task.etag # 0
    /\ ret.results[1].etag < ret.task.etag
    /\ remote[ret.task.href] = ret.task.etag
    /\ remote[ret.results[1].href] = ret.results[1].etag

\* ------------------------------------------------------------ respawn
\* The task respawn() was called on, and the task it returned.
OriginalTask == ret.task
NextTask == ret.results[1]

\* The anchor of the recurrence: dtstart if present, otherwise due.
Anchor == IF OriginalTask.dtstart.some THEN OriginalTask.dtstart.v ELSE OriginalTask.due.v

\* The second occurrence of the rule, counted from the anchor.
NextStart == Anchor + (IF OriginalTask.rrule.v = DAILY THEN Day ELSE 7 * Day)

\* C22: respawn keeps the due-to-anchor offset: the next due date is the next
\* start plus (due - anchor), anchor being dtstart if present and due
\* otherwise; the next task has a dtstart only if the original had one, and it
\* is the next start; a daily task with dtstart T and due T + 2 days respawns
\* with dtstart T + 1 day and due T + 3 days.
C22_DueOffset ==
    (ret.op = "respawn" /\ ret.ok)
    => /\ NextTask.dtstart.some <=> OriginalTask.dtstart.some
       /\ NextTask.due.some <=> OriginalTask.due.some
       /\ OriginalTask.dtstart.some => NextTask.dtstart.v = NextStart
       /\ OriginalTask.due.some => NextTask.due.v = NextStart + (OriginalTask.due.v - Anchor)
       /\ \A T \in {0, 3600} :
             (/\ OriginalTask.dtstart = SomeDate(T)
              /\ OriginalTask.due = SomeDate(T + 2 * Day)
              /\ OriginalTask.rrule = SomeStr(DAILY))
             => /\ NextTask.dtstart = SomeDate(T + Day)
                /\ NextTask.due = SomeDate(T + 3 * Day)

\* A daily task that starts at 3600 and is due two days later was respawned:
\* the next one starts a day later and is due three days later.
C22_Witness ==
    /\ ret.op = "respawn"
    /\ ret.ok
    /\ OriginalTask.rrule = SomeStr(DAILY)
    /\ OriginalTask.dtstart = SomeDate(3600)
    /\ OriginalTask.due = SomeDate(3600 + 2 * Day)
    /\ NextTask.dtstart = SomeDate(3600 + Day)
    /\ NextTask.due = SomeDate(3600 + 3 * Day)

\* C23: a respawned task is the original with a fresh uid that differs from
\* the original's, an empty href and etag, the status NeedsAction, no
\* dependencies and dtstart/due of the next occurrence; summary, description,
\* priority, recurrence rule, parent_uid, categories and calendar_href are
\* the original's.
C23_RespawnFrame ==
    (ret.op = "respawn" /\ ret.ok)
    => /\ NextTask.uid # OriginalTask.uid
       /\ NextTask.uid # ""
       /\ NextTask.href = <<>>
       /\ NextTask.etag = 0
       /\ NextTask.status = "NeedsAction"
       /\ NextTask.dependencies = {}
       /\ NextTask.summary = OriginalTask.summary
       /\ NextTask.description = OriginalTask.description
       /\ NextTask.priority = OriginalTask.priority
       /\ NextTask.rrule = OriginalTask.rrule
       /\ NextTask.parent_uid = OriginalTask.parent_uid
       /\ NextTask.categories = OriginalTask.categories
       /\ NextTask.calendar_href = OriginalTask.calendar_href
       /\ NextTask = [OriginalTask EXCEPT !.uid = NextTask.uid, !.href = <<>>, !.etag = 0,
                                  !.status = "NeedsAction", !.dependencies = {},
                                  !.dtstart = NextTask.dtstart, !.due = NextTask.due]
       /\ OriginalTask.dtstart.some => NextTask.dtstart.v > OriginalTask.dtstart.v
       /\ OriginalTask.due.some => NextTask.due.v > OriginalTask.due.v

\* A completed weekly task of a remote calendar, synced, with a dependency,
\* a parent and a category, was respawned.
C23_Witness ==
    /\ ret.op = "respawn"
    /\ ret.ok
    /\ OriginalTask.status = "Completed"
    /\ OriginalTask.rrule = SomeStr(WEEKLY)
    /\ OriginalTask.href # <<>>
    /\ OriginalTask.etag # 0
    /\ OriginalTask.dependencies # {}
    /\ OriginalTask.parent_uid.some
    /\ OriginalTask.categories # {}
    /\ OriginalTask.calendar_href = CalA
    /\ NextTask.calendar_href = CalA
    /\ NextTask.dependencies = {}

\* --------------------------------------------------------------- the move
\* The step is the create_task of a move_task that went on to the delete.
MoveCreated == op.name = "move_task" /\ op.pc = "create" /\ op'.name = "move_task"

\* The step is the delete_task of a move_task.
MoveDeleting == op.name = "move_task" /\ op.pc = "delete"

\* C24: move_task creates at the destination calendar a copy of the task with
\* the same uid and the destination's calendar_href, with the href of the
\* destination (none on the local calendar) and the etag of the creation (or
\* none) instead of the source's, while the source is untouched; then it
\* attempts the delete of the source, and whether the delete fails or not the
\* move returns Ok with the new task.
C24_MoveCopiesThenDeletes ==
    [][/\ MoveCreated
          => /\ op'.pc = "delete"
             /\ op'.task = op.task
             /\ op'.next.uid = op.task.uid
             /\ op'.next.calendar_href = OtherCalendar(op.task.calendar_href)
             /\ op'.next.href = IF IsRemoteTask(op'.next)
                                THEN FullHref(op'.next.calendar_href, op.task.uid) ELSE <<>>
             /\ op'.next.href # op.task.href
             /\ op'.next.etag = 0 \/ op'.next.etag # op.task.etag
             /\ op'.next = [op.task EXCEPT !.calendar_href = op'.next.calendar_href,
                                           !.href = op'.next.href, !.etag = op'.next.etag]
             /\ IF IsRemoteTask(op'.next)
                THEN /\ store' = store
                     /\ \/ /\ remote'[op'.next.href] # 0
                           /\ remote'[op'.next.href] = op'.next.etag
                        \/ /\ Journaled(op.task.uid)
                           /\ journalDisk'[Len(journalDisk')].kind = "Create"
                           /\ journalDisk'[Len(journalDisk')].task = op'.next
                ELSE /\ store' # <<>>
                     /\ store'[Len(store')] = op'.next
                     /\ remote' = remote
       /\ MoveDeleting
          => /\ ret'.op = "move_task"
             /\ ret'.ok
             /\ ret'.task = op.next
             /\ op'.name = "idle"
             /\ IsRemoteTask(op.task) /\ hasClient => last'.resp # "none"
             /\ ~IsRemoteTask(op.task) => last'.io # "none"
             /\ (IsRemoteTask(op.task) /\ IsOk(last'.resp)) => remote'[op.task.href] = 0
             /\ (~IsRemoteTask(op.task) /\ last'.io = "ok")
                => \A k \in 1..Len(store') : store'[k].uid # op.task.uid]_vars

\* A task of the Local Store was moved to the remote calendar, the save of
\* the Local Store without it failed, and the move returned the new task: the
\* task is on the server and still in the Local Store.
C24_Witness ==
    /\ ret.op = "move_task"
    /\ ret.ok
    /\ last.io = "save_failed"
    /\ ret.task.calendar_href = CalA
    /\ ret.task.href = FullHref(CalA, ret.task.uid)
    /\ remote[ret.task.href] = ret.task.etag
    /\ ret.task.etag # 0
    /\ \E k \in 1..Len(store) : store[k].uid = ret.task.uid

\* ---------------------------------------------------------- the migration
\* The tasks of the batch that migrate_tasks has taken so far.
Taken == Len(op.def) - Len(op.queue)

\* C25: migrate_tasks takes the tasks of the batch one by one in their order
\* and starts a move for each, the ones after a failed move included; the
\* count goes up by one exactly when a move_task returns Ok, stays between 0
\* and the number of tasks taken, and at the end of the batch migrate_tasks
\* returns Ok with the count.
C25_MigrateCountsSuccesses ==
    [][op.name = "migrate_tasks"
       => /\ op.queue = SubSeq(op.def, Taken + 1, Len(op.def))
          /\ op.count \in 0..Taken
          /\ op.pc \in {"create", "delete"} => op.task = op.def[Taken]
          /\ (op.pc = "next" /\ op.queue # <<>>)
             => /\ op'.name = "migrate_tasks"
                /\ op'.pc = "create"
                /\ op'.task = Head(op.queue)
                /\ op'.queue = Tail(op.queue)
                /\ op'.count = op.count
          /\ op.pc = "create"
             => /\ op'.name = "migrate_tasks"
                /\ op'.pc \in {"delete", "next"}
                /\ op'.queue = op.queue
                /\ op'.count = op.count
          /\ op.pc = "delete"
             => /\ op'.name = "migrate_tasks"
                /\ op'.pc = "next"
                /\ op'.queue = op.queue
                /\ op'.count = op.count + 1
          /\ (op.pc = "next" /\ op.queue = <<>>)
             => /\ op'.name = "idle"
                /\ ret'.op = "migrate_tasks"
                /\ ret'.ok
                /\ ret'.results = <<[count |-> op.count]>>
                /\ op.count \in 0..Len(op.def)
          /\ op'.name = "idle" => (op.pc = "next" /\ op.queue = <<>>)]_vars

\* A batch of two tasks of the remote calendar went to the local calendar:
\* the move of the first failed (its copy was not saved), the move of the
\* second succeeded after it, and the count is one.
C25_Witness ==
    /\ op.name = "migrate_tasks"
    /\ op.pc = "next"
    /\ op.queue = <<>>
    /\ Len(op.def) = 2
    /\ op.count = 1
    /\ op.cals = <<LOCAL_CALENDAR_HREF>>
    /\ \A k \in 1..Len(store) : store[k].uid # op.def[1].uid
    /\ \E k \in 1..Len(store) : store[k].uid = op.def[2].uid

\* ------------------------------------------------------- the Local Store
\* create_task, update_task or delete_task (name) on a task of the local
\* calendar is called and returns in this step.
LocalCrudStep(name) ==
    /\ op.name = "idle"
    /\ op'.name = "idle"
    /\ ret'.op = name
    /\ ~IsRemoteTask(ret'.task)

\* C26: on the local calendar a create_task that returns Ok has appended the
\* task to the Local Store, an update_task has replaced the first stored task
\* with the same uid, a delete_task has removed the stored tasks with that
\* uid, and every other stored task is unchanged and in its original order.
C26_LocalFrame ==
    [][/\ (LocalCrudStep("create_task") /\ ret'.ok)
          => store' = Append(store, ret'.task)
       /\ (LocalCrudStep("update_task") /\ ret'.ok)
          => /\ Len(store') = Len(store)
             /\ \A k \in 1..Len(store) :
                   store'[k] = IF /\ store[k].uid = ret'.task.uid
                                  /\ \A j \in 1..(k - 1) : store[j].uid # ret'.task.uid
                               THEN ret'.task ELSE store[k]
       /\ (LocalCrudStep("delete_task") /\ ret'.ok)
          => store' = SelectSeq(store, LAMBDA t : t.uid # ret'.task.uid)]_vars

\* C27: a failure to read or to write the Local Store in create_task,
\* update_task, delete_task or toggle_task on the local calendar is returned
\* to the caller as an error, and the Local Store is left as it was.
C27_StorageFailuresPropagate ==
    [][(/\ op.name = "idle"
        /\ op'.name = "idle"
        /\ ret'.op \in {"create_task", "update_task", "delete_task", "toggle_task"}
        /\ ~IsRemoteTask(ret'.task)
        /\ last'.io \in {"load_failed", "save_failed"})
       => /\ ~ret'.ok
          /\ store' = store]_vars

\* ------------------------------------------------------ the read failure
\* C28: get_tasks of a remote calendar returns no error for a listing or a
\* multiget that failed without a certificate error, and no empty list in
\* its place: the caller gets the tasks of the cache.
C28_ReadFailureFallsBack ==
    (/\ ret.op = "get_tasks"
     /\ ret.results[1].href # LOCAL_CALENDAR_HREF
     /\ ~IsFatal(ret.err))
    => /\ ret.ok
       /\ ret.err = <<>>

\* ---------------------------------------------------- the bootstrap's sync
\* A request of the delta sync is in flight.
DeltaSyncRuns == fut # <<>> /\ fut[1].fn = "get_tasks" /\ fut[1].pc # "done"

\* C29: connect_with_fallback runs the delta sync of the active calendar only
\* if the calendar list came from the server and an active calendar was
\* determined; with the list of the cache (the warning is set) or without an
\* active calendar it starts no get_tasks and returns an empty task list.
C29_DeltaOnlyOnline ==
    [][/\ (op.name = "connect_with_fallback" /\ op.pc = "sync" /\ op'.pc = "tasks")
          => /\ hasClient
             /\ last'.resp = "ok"
             /\ fut'[1].fn = "get_tasks"
             /\ fut'[1].cal # <<>>
       /\ (op.name = "connect_with_fallback" /\ op.pc = "sync" /\ ret'.op = op.name /\ ret'.ok)
          => /\ ret'.results[1].warning # <<>> \/ ret'.results[1].active_href = <<>>
             /\ ret'.results[1].warning # <<>> <=> (hasClient /\ last'.resp # "ok")
             /\ ret'.results[1].tasks = {}
             /\ fut' = <<>>
       /\ (op.name = "connect_with_fallback" /\ op.pc = "tasks" /\ ret'.op = op.name)
          => /\ ret'.ok
             /\ ret'.results[1].warning = <<>>
             /\ ret'.results[1].active_href # <<>>
       /\ (op.name = "connect_with_fallback" /\ DeltaSyncRuns) => op.pc = "tasks"]_vars

\* The server did not answer, the cached calendar list holds the configured
\* calendar: the bootstrap returned it as the active one with the warning and
\* an empty task list.
C29_Witness ==
    /\ hasClient
    /\ ret.op = "connect_with_fallback"
    /\ ret.ok
    /\ ret.results[1].warning = OFFLINE_MODE
    /\ ret.results[1].calendars = <<CalendarB>>
    /\ ret.results[1].active_href = CalB
    /\ ret.results[1].tasks = {}
    /\ last.resp = "enet"

\* ------------------------------------------------- the replay comes first
\* Future i is a get_tasks that sends its list_resources in this step.
ListingRequested(i) ==
    /\ i \in DOMAIN fut'
    /\ fut'[i].fn = "get_tasks"
    /\ fut'[i].pc = "list"
    /\ i \in DOMAIN fut => (fut[i].fn # "get_tasks" \/ fut[i].pc # "list")

\* Future i waited for an answer of the replay before this step.
WasReplaying(i) == i \in DOMAIN fut /\ fut[i].fn = fut'[i].fn /\ fut[i].pc \in ReplayPcs

\* C30: get_tasks of a remote calendar requests the listing only when its
\* replay of the journal has ended, drained (no entry left) or blocked (the
\* head entry stays), and it never requests it while a journal with entries
\* has not been tried; a get_tasks fails only on its listing or multiget,
\* never on the replay. connect_with_fallback fetches the calendar list only
\* when its own replay has ended, with entries left in the journal or not.
C30_ReplayBeforeListing ==
    [][/\ \A i \in DOMAIN fut' :
             /\ ListingRequested(i)
                => IF WasReplaying(i)
                   THEN \/ fut'[i].queue = <<>> /\ journalDisk' = <<>>
                        \/ fut'[i].queue = fut[i].queue /\ journalDisk' = journalDisk
                   ELSE journalDisk = <<>>
             /\ (i \in DOMAIN fut' /\ fut'[i].fn = "get_tasks" /\ ~WasReplaying(i)
                 /\ journalDisk # <<>> /\ hasClient /\ (i \in DOMAIN fut => fut[i].pc = "done"))
                => fut'[i].pc = "replay"
             /\ (i \in DOMAIN fut /\ i \in DOMAIN fut' /\ fut[i].fn = "get_tasks"
                 /\ fut[i].pc # "done" /\ fut'[i].pc = "done" /\ ~fut'[i].res.ok)
                => fut[i].pc \in {"list", "multiget"}
       /\ (op.name = "idle" /\ op'.name = "connect_with_fallback")
          => /\ fut'[1].fn = "sync_journal"
             /\ (journalDisk # <<>> /\ hasClient) => fut'[1].pc = "replay"
       /\ (op.name = "connect_with_fallback" /\ op.pc = "sync" /\ op' # op)
          => /\ fut[1].fn = "sync_journal"
             /\ fut[1].pc = "done"
             /\ fut[1].res.ok
             /\ journalDisk' = journalDisk]_vars

\* The bootstrap of a session whose journal holds an entry the server did not
\* take: both replays stopped at it, the calendar list and the tasks of the
\* active calendar were fetched all the same and the entry is still there.
C30_Witness ==
    /\ ret.op = "connect_with_fallback"
    /\ ret.ok
    /\ journalDisk # <<>>
    /\ ret.results[1].warning = <<>>
    /\ ret.results[1].calendars # <<>>
    /\ ret.results[1].active_href = CalA
    /\ ret.results[1].tasks # {}

\* ------------------------------------------------ the flush before a read
\* The Update and Delete entries of the journal file for the href.
QueuedEdits(h) ==
    {k \in 1..Len(journalDisk') :
        journalDisk'[k].kind \in {"Update", "Delete"} /\ journalDisk'[k].task.href = h}

\* C31: get_tasks on a remote calendar never returns the server's version of a
\* resource (a task parsed from the answer to the multiget) while an Update or
\* a Delete for that resource is still queued in the journal.
C31_FlushBeforeRead ==
    [][\A i \in DOMAIN fut :
          (/\ fut[i].pc = "multiget"
           /\ i \in DOMAIN fut'
           /\ fut'[i].pc = "done"
           /\ fut'[i].res.ok)
          => \A t \in fut'[i].res.tasks \ fut[i].kept : QueuedEdits(t.href) = {}]_vars

\* ------------------------------------------------------------ the delta
\* final_tasks and to_fetch of future i after the loop over the listing.
KeptAfter(i) == IF fut'[i].pc = "done" THEN fut'[i].res.tasks ELSE fut'[i].kept

MarkedAfter(i) == IF fut'[i].pc = "done" THEN {} ELSE fut'[i].toFetch

\* C32: in get_tasks every listed resource whose href ends in ".ics" is either
\* kept from the cache unchanged (the cache holds the href with an etag that
\* is not empty and equals the listed one) or marked for the batch fetch,
\* never both; a resource without the suffix is neither kept nor fetched, and
\* a resource with an empty or a missing etag is always fetched.
C32_KeptOrFetched ==
    [][\A i \in DOMAIN fut :
          Listed(i)
          => /\ \A x \in last'.listing :
                  LET hit == {t \in last'.cached :
                                 t.href = x.href /\ x.etag.some /\ x.etag.v # 0
                                 /\ x.etag.v = t.etag}
                      kept == {t \in KeptAfter(i) : t.href = x.href}
                  IN IF ~EndsWithIcs(x.href)
                     THEN kept = {} /\ x.href \notin MarkedAfter(i)
                     ELSE /\ (hit # {}) => (kept = hit /\ x.href \notin MarkedAfter(i))
                          /\ (hit = {}) => (kept = {} /\ x.href \in MarkedAfter(i))
                          /\ (~x.etag.some \/ x.etag.v = 0) => x.href \in MarkedAfter(i)
             /\ \A t \in KeptAfter(i) : t \in last'.cached
             /\ \A h \in MarkedAfter(i) : \E x \in last'.listing : x.href = h]_vars

\* The listing held the collection and a document with an empty etag that the
\* cache holds without an etag: the document is marked for the fetch, nothing
\* is kept.
C32_Witness ==
    \E i \in DOMAIN fut :
        /\ last.who = i
        /\ fut[i].pc = "multiget"
        /\ \E x \in last.listing : ~EndsWithIcs(x.href)
        /\ \E x \in last.listing :
              /\ EndsWithIcs(x.href)
              /\ x.etag = SomeEtag(0)
              /\ \E t \in last.cached : t.href = x.href /\ t.etag = 0
              /\ x.href \in fut[i].toFetch
        /\ fut[i].kept = {}

\* ------------------------------------------------------ the batch fetch
\* The step delivers the answer to the multiget of future i.
Fetched(i) == fut[i].pc = "multiget" /\ last'.who = i /\ last'.resp = "ok"

\* The items of the answer that have a content that parses.
GoodItems == {x \in last'.listing : x.etag.some}

\* C33: get_tasks sends at most one multiget per call, for all the marked
\* hrefs; an item with an error, an empty body or a body that does not parse
\* is skipped and get_tasks still returns Ok; every parsed item is in the
\* result, with all the tasks kept from the cache.
C33_OneBatchFetch ==
    [][\A i \in DOMAIN fut :
          /\ (i \in DOMAIN fut' /\ fut'[i].pc = "multiget" /\ fut[i].pc # "multiget")
             => fut[i].pc = "list"
          /\ (fut[i].pc = "multiget" /\ last'.who = i) => fut'[i].pc = "done"
          /\ Fetched(i)
             => /\ {x.href : x \in last'.listing} = fut[i].toFetch
                /\ fut'[i].res.ok
                /\ fut[i].kept \subseteq fut'[i].res.tasks
                /\ \A x \in GoodItems :
                      \E t \in fut'[i].res.tasks :
                         /\ t.href = x.href
                         /\ t.etag = x.etag.v
                         /\ t.calendar_href = fut[i].cal
                /\ \A t \in fut'[i].res.tasks \ fut[i].kept :
                      \E x \in GoodItems : x.href = t.href]_vars

\* The multiget answered with an item that parses and an item that does not:
\* get_tasks returned Ok with the task of the first and without the second.
C33_Witness ==
    \E i \in DOMAIN fut :
        /\ last.who = i
        /\ fut[i].pc = "done"
        /\ fut[i].res.ok
        /\ \E x \in last.listing, y \in last.listing :
              /\ EndsWithIcs(x.href) /\ x.etag.some
              /\ EndsWithIcs(y.href) /\ ~y.etag.some
              /\ \E t \in fut[i].res.tasks : t.href = x.href
              /\ \A t \in fut[i].res.tasks : t.href # y.href

\* ------------------------------------------------- the next occurrence
\* The rules of the inputs whose recurrence has a second occurrence.
Repeats(task) == task.rrule.some /\ task.rrule.v \in {DAILY, WEEKLY}

\* C34: respawn produces no task when the task has no recurrence rule, when it
\* has neither dtstart nor due, or when the recurrence yields fewer than two
\* occurrences; otherwise the anchor is dtstart if present, else due, and the
\* next start is the second occurrence of the recurrence anchored there.
C34_SecondOccurrence ==
    ret.op = "respawn"
    => /\ ~OriginalTask.rrule.some => ~ret.ok
       /\ (~OriginalTask.dtstart.some /\ ~OriginalTask.due.some) => ~ret.ok
       /\ ~Repeats(OriginalTask) => ~ret.ok
       /\ (/\ Repeats(OriginalTask)
           /\ (OriginalTask.dtstart.some \/ OriginalTask.due.some))
          => /\ ret.ok
             /\ Len(ret.results) = 1
             /\ IF OriginalTask.dtstart.some
                THEN NextTask.dtstart = SomeDate(OriginalTask.dtstart.v
                                                 + (IF OriginalTask.rrule.v = DAILY
                                                    THEN Day ELSE 7 * Day))
                ELSE NextTask.due = SomeDate(OriginalTask.due.v
                                             + (IF OriginalTask.rrule.v = DAILY
                                                THEN Day ELSE 7 * Day))
       /\ ~ret.ok => ret.results = <<>>

\* A weekly task without a dtstart and with a due date was respawned: the due
\* date is the anchor and the next one is a week later.
C34_Witness ==
    /\ ret.op = "respawn"
    /\ ret.ok
    /\ OriginalTask.rrule = SomeStr(WEEKLY)
    /\ ~OriginalTask.dtstart.some
    /\ OriginalTask.due = SomeDate(3600 + 2 * Day)
    /\ NextTask.due = SomeDate(3600 + 9 * Day)
    /\ ~NextTask.dtstart.some

\* ------------------------------------------------ the Local Store's tasks
\* C35: from a Local Store whose tasks have an empty href and etag, after any
\* sequence of create_task, update_task, delete_task, toggle_task, move_task
\* and migrate_tasks every task of the Local Store has the local calendar's
\* href as calendar_href and an empty href and etag.
C35_StoreIsLocal ==
    \A k \in 1..Len(store) :
        /\ store[k].calendar_href = LOCAL_CALENDAR_HREF
        /\ store[k].href = <<>>
        /\ store[k].etag = 0

\* The Local Store holds a task that move_task brought from the remote
\* calendar, next to the occurrence a toggle appended.
C35_Witness ==
    /\ ret.op = "move_task"
    /\ ret.ok
    /\ ret.task.calendar_href = LOCAL_CALENDAR_HREF
    /\ remote[FullHref(CalA, ret.task.uid)] = 0
    /\ \E k \in 1..Len(store) : store[k] = ret.task
    /\ \E k \in 1..Len(store) : store[k].dtstart = SomeDate(Day)

\* ------------------------------------------- the move between remotes
\* C36: in a move between two remote calendars the server never applies the
\* deletion of the source before it has applied the creation of the copy at
\* the destination, whether the two are sent at once or replayed from the
\* journal.
C36_CreateBeforeDelete ==
    [][(remote[FullHref(CalA, "u1")] # 0 /\ remote'[FullHref(CalA, "u1")] = 0)
       => remote[FullHref(CalB, "u1")] # 0]_vars

\* ------------------------------------------------- the toggle that fails
\* C37: when toggle_task returns an error, the caller's task has its original
\* status, no respawned task has been created in the Local Store, on the
\* server or in the journal, and the original task has not been persisted
\* with the new status: the Local Store, the server and the journal are as
\* they were before the call.
C37_ToggleAtomicOnError ==
    [][(ret = NoRet /\ ret'.op = "toggle_task" /\ ~ret'.ok)
       => /\ op.name = "idle" => ret'.task.status = last'.arg.status
          /\ store' = store
          /\ remote' = [h \in ResHrefs |-> IF h = FullHref(CalA, "u1") THEN OldEtag ELSE 0]
          /\ journalDisk' = <<>>]_vars

\* ------------------------------------------- the cached calendar list
\* C38: the bootstrap overwrites the cached calendar list only with a list
\* that was fetched from the server: connect_with_fallback with a client
\* built from an empty url, or after a failed calendar fetch, leaves the
\* cached calendar list unchanged.
C38_CacheOnlyFromServer ==
    [][calCache' # calCache
       => /\ op.name = "connect_with_fallback"
          /\ hasClient
          /\ last'.resp = "ok"]_vars

\* ------------------------------------------------ the queued Create's href
\* The href of the task document uid of the calendars of the check, written
\* out.
Joined(cal, uid) ==
    IF cal = CalA THEN <<"c1", "/", uid, ".ics">> ELSE <<"c2", "/", uid, ".ics">>

\* C39: for every Create of the journal the href replay sends is the href
\* stored in the queued task, both being the task's calendar_href joined with
\* "<uid>.ics" by exactly one '/': an Update or a Delete queued after it for
\* the same task addresses the resource the replayed Create produces.
C39_CreateHref ==
    [][/\ \A k \in 1..Len(journalDisk') :
             LET a == journalDisk'[k]
             IN a.kind = "Create"
                => /\ ActionHref(a) = a.task.href
                   /\ a.task.href = Joined(a.task.calendar_href, a.task.uid)
                   /\ \A j \in (k + 1)..Len(journalDisk') :
                         LET b == journalDisk'[j]
                         IN (/\ b.kind \in {"Update", "Delete"}
                             /\ b.task.uid = a.task.uid
                             /\ b.task.calendar_href = a.task.calendar_href)
                            => ActionHref(b) = ActionHref(a)
       /\ \A i \in DOMAIN fut :
             (/\ fut[i].pc = "replay"
              /\ Head(fut[i].queue).kind = "Create"
              /\ last'.who = i
              /\ last'.resp = "ok")
             => /\ remote[Head(fut[i].queue).task.href] = 0
                /\ remote'[Head(fut[i].queue).task.href] # 0
                /\ \A h \in DOMAIN remote :
                      h # Head(fut[i].queue).task.href => remote'[h] = remote[h]]_vars

\* The journal held the Create of a task of the calendar whose href has no
\* trailing '/' and, behind it, an Update or a Delete of that task; the replay
\* of the Create has put the document at the href they address.
C39_Witness ==
    /\ Len(journalDisk) = 1
    /\ journalDisk[1].kind \in {"Update", "Delete"}
    /\ journalDisk[1].task.calendar_href = CalB
    /\ journalDisk[1].task.href = <<"c2", "/", "u1", ".ics">>
    /\ remote[journalDisk[1].task.href] # 0
    /\ \E i \in DOMAIN fut : fut[i].pc \in ReplayPcs /\ Len(fut[i].queue) = 1
    /\ popped = {1}

\* ------------------------------------------------ the replay terminates
\* The step delivers an answer to the replay of future i.
Answered(i) == fut[i].pc \in ReplayPcs /\ last'.who = i

\* C40: sync_journal terminates for every journal and every pattern of
\* answers: a run that has started returns; every answer either leaves the
\* head entry in its iteration (the refetch and the retry follow), pops it, or
\* halts the replay with the journal as it is; a head whose request succeeds
\* is popped, the replay halts only on a failure, and the run ends with an
\* empty journal otherwise.
C40_ReplayTerminates ==
    /\ (op.name = "sync_journal") ~> (op.name = "idle" /\ ret.op = "sync_journal")
    /\ [][\A i \in DOMAIN fut :
             Answered(i)
             => /\ \/ /\ fut'[i].queue = Tail(fut[i].queue)
                      /\ journalDisk' = Tail(fut[i].queue)
                      /\ fut'[i].pc = IF fut'[i].queue = <<>> THEN "done" ELSE "replay"
                   \/ /\ fut'[i].queue = fut[i].queue
                      /\ journalDisk' = journalDisk
                      /\ \/ fut[i].pc = "replay" /\ fut'[i].pc \in {"refetch", "done"}
                         \/ fut[i].pc = "refetch" /\ fut'[i].pc = "retry"
                /\ (fut[i].pc = "replay" /\ last'.resp = "ok")
                   => fut'[i].queue = Tail(fut[i].queue)
                /\ (fut'[i].pc = "done" /\ fut'[i].queue # <<>>)
                   => fut[i].pc = "replay" /\ last'.resp # "ok"
                /\ (fut'[i].pc = "done" /\ fut'[i].queue = <<>>) => journalDisk' = <<>>]_vars

\* A run of sync_journal on a journal of two entries has returned with the
\* journal empty.
C40_Witness ==
    /\ ret.op = "sync_journal"
    /\ op.name = "idle"
    /\ journalDisk = <<>>
    /\ popped = {1, 2}

====
